---- MODULE Spec2Model ----
(***************************************************************************)
(* A model of the Anki note builder of 10ten-ja-reader                     *)
(* (src/content/anki-note-builder.ts and the types of                      *)
(* src/common/anki-types.ts).                                              *)
(*                                                                         *)
(* A JavaScript string is a sequence of characters.  A character of the    *)
(* Japanese text is a token of Chars, whose code point codePointAt gives;  *)
(* every character of Chars is in the Basic Multilingual Plane, so the     *)
(* code-point iteration of `for (const char of text)` and the UTF-16       *)
(* indices of slice/indexOf/length agree.  A piece of literal text of the  *)
(* program ('[', '<ruby>', ', ') is one token; a character outside ASCII  *)
(* in such a piece is written [U+hhhh].                                    *)
(***************************************************************************)
EXTENDS Integers, Sequences, FiniteSets, TLC

\* ------------------------------------------------------------------------
\* Bounds of the inputs
\* ------------------------------------------------------------------------

\* longest expression handed to distributeFurigana
MaxExprLen == 3
\* longest reading handed to distributeFurigana
MaxReadLen == 3
\* most kanji headwords (kanji forms) of an entry
MaxHeadwords == 2
\* most readings of an entry
MaxReadings == 2
\* most pieces of a field template
MaxTemplateLen == 4
\* longest reading handed to getPitchCategory on its own
MaxPitchLen == 3
\* largest drop position handed to getPitchCategory on its own
MaxPosition == 4
\* longest sense list handed to serializeSensesHtml on its own
MaxSenses == 4
\* longest expression and reading handed to the furigana renderers on their own
MaxRenderLen == 3
\* most rows of the frequency list
MaxRows == 2
\* most calls of loadFrequencyData that are followed
MaxLoadCalls == 3

\* ------------------------------------------------------------------------
\* Characters
\* ------------------------------------------------------------------------

\* shoku = U+98DF (kanji), ta = U+305F, be = U+3079, ru = U+308B (hiragana),
\* BE = U+30D9 (katakana be)
Chars == {"shoku", "ta", "be", "ru", "BE"}

codePointAt(char) ==
  CASE char = "shoku" -> 39135
    [] char = "ta" -> 12383
    [] char = "be" -> 12409
    [] char = "ru" -> 12427
    [] char = "BE" -> 12505
    [] char = "ya" -> 12419
    [] char = "yo" -> 12423
    [] char = "YO" -> 12519

\* small kana: ya = U+3083, yo = U+3087 (hiragana), YO = U+30E7 (katakana)
SmallKanaChars == {"ya", "yo", "YO"}

fromCodePoint(code) == CHOOSE c \in Chars \cup SmallKanaChars : codePointAt(c) = code

\* the kana among them: what a dictionary reading is written in
KanaChars == {"ta", "be", "ru", "BE"}

\* all strings over an alphabet, of length lo..hi
Strings(alphabet, lo, hi) == UNION {[1..n -> alphabet] : n \in lo..hi}

\* ------------------------------------------------------------------------
\* String helpers of the language (0-based indices, as in the source)
\* ------------------------------------------------------------------------

\* s.slice(from, to), 0 <= from <= to <= s.length
slice(s, from, to) == SubSeq(s, from + 1, to)

\* s.indexOf(sub, from): the least index >= from where sub occurs, or -1
indexOfFromZero(s, sub, from) ==
  LET hits == {k \in 0..(Len(s) - Len(sub)) : slice(s, k, k + Len(sub)) = sub}
  IN IF hits = {} THEN -1 ELSE CHOOSE k \in hits : \A j \in hits : k <= j

indexOf(s, sub, from) ==
  LET hits == {k \in from..(Len(s) - Len(sub)) : slice(s, k, k + Len(sub)) = sub}
  IN IF hits = {} THEN -1 ELSE CHOOSE k \in hits : \A j \in hits : k <= j

\* ------------------------------------------------------------------------
\* Kana classifier
\* ------------------------------------------------------------------------

isKanaCharHiraganaOnly(char) ==
  LET code == codePointAt(char)
  IN code >= 12352 /\ code <= 12447

\* Hiragana: 3040-309F, Katakana: 30A0-30FF
isKanaChar(char) ==
  LET code == codePointAt(char)
  IN (code >= 12352 /\ code <= 12447) \/ (code >= 12448 /\ code <= 12543)

isAllKana(text) ==
  (\A k \in 1..Len(text) : isKanaChar(text[k])) /\ Len(text) > 0

\* 30A1-30F6 are moved down by 0x60
katakanaToHiragana(text) ==
  [k \in 1..Len(text) |->
     LET code == codePointAt(text[k])
     IN IF code >= 12449 /\ code <= 12534
        THEN fromCodePoint(code - 96)
        ELSE text[k]]

\* ------------------------------------------------------------------------
\* distributeFurigana: the pieces
\* ------------------------------------------------------------------------

FuriganaSegment(text, reading) == [text |-> text, reading |-> reading]

\* The partition loop.  currentIsKana is null before the first character,
\* which is exactly when currentGroup is empty: the first character always
\* takes the else branch.
RECURSIVE splitGroups(_, _, _, _, _)
splitGroups(expression, k, currentGroup, currentIsKana, groups) ==
  LET flushed == IF currentGroup # <<>>
                 THEN Append(groups, [text |-> currentGroup, isKana |-> currentIsKana])
                 ELSE groups
  IN IF k > Len(expression)
     THEN flushed
     ELSE LET char == expression[k]
              charIsKana == isKanaChar(char)
          IN IF currentGroup # <<>> /\ charIsKana = currentIsKana
             THEN splitGroups(expression, k + 1, Append(currentGroup, char), currentIsKana, groups)
             ELSE splitGroups(expression, k + 1, <<char>>, charIsKana, flushed)

Groups(expression) == splitGroups(expression, 1, <<>>, FALSE, <<>>)

\* the returns of lines 402, 407
NoReadingResult(expression) == <<FuriganaSegment(expression, <<>>)>>

SingleGroupResultNoReading(expression, rd) == <<FuriganaSegment(expression, <<>>)>>

\* the return of line 433
SingleGroupResult(expression, rd) == <<FuriganaSegment(expression, rd)>>

FallbackResultNormalized(expression, rd) ==
  <<FuriganaSegment(expression, katakanaToHiragana(rd))>>

\* the return of line 467
FallbackResult(expression, rd) == <<FuriganaSegment(expression, rd)>>

\* the index the kana group is found at (line 447)
FoundIdx(group, rd, pos) ==
  indexOf(katakanaToHiragana(rd), katakanaToHiragana(group.text), pos)

\* lines 449-464: the kana group was found at foundIdx
KanaFoundSegments(segs, group, rd, pos, foundIdx) ==
  LET before ==
        IF foundIdx > pos /\ Len(segs) > 0
        THEN [segs EXCEPT ![Len(segs)].reading = slice(rd, pos, foundIdx)]
        ELSE IF foundIdx > pos
             THEN Append(segs, FuriganaSegment(slice(rd, pos, foundIdx), <<>>))
             ELSE segs
  IN Append(before, FuriganaSegment(group.text, <<>>))

\* lines 469-472: a kanji group is pushed with no reading yet
KanjiSegments(segs, group) == Append(segs, FuriganaSegment(group.text, <<>>))

\* where the cursor stands after a match (line 464)
CursorAfter(group, foundIdx) == foundIdx + Len(katakanaToHiragana(group.text))

\* the remaining reading given to the last segment, whatever its text
AssignRemainingToLast(segs, rd, pos) ==
  IF pos < Len(rd) /\ Len(segs) > 0
  THEN [segs EXCEPT ![Len(segs)].reading = slice(rd, pos, Len(rd))]
  ELSE segs

\* lines 476-483: the remaining reading goes to the last non-kana segment
AssignRemaining(segs, rd, pos) ==
  IF pos < Len(rd)
  THEN LET kanji == {k \in 1..Len(segs) : ~isAllKana(segs[k].text)}
       IN IF kanji = {}
          THEN segs
          ELSE LET last == CHOOSE k \in kanji : \A j \in kanji : j <= k
               IN [segs EXCEPT ![last].reading = slice(rd, pos, Len(rd))]
  ELSE segs

\* ------------------------------------------------------------------------
\* distributeFurigana as a function (what its callers see)
\* ------------------------------------------------------------------------

\* the loop of lines 441-473 followed by lines 475-485
RECURSIVE walkGroups(_, _, _, _, _, _)
walkGroups(expr, rd, gs, k, segs, pos) ==
  IF k >= Len(gs)
  THEN AssignRemaining(segs, rd, pos)
  ELSE LET group == gs[k + 1]
       IN IF group.isKana
          THEN LET foundIdx == FoundIdx(group, rd, pos)
               IN IF foundIdx >= 0
                  THEN walkGroups(expr, rd, gs, k + 1,
                                  KanaFoundSegments(segs, group, rd, pos, foundIdx),
                                  CursorAfter(group, foundIdx))
                  ELSE FallbackResult(expr, rd)
          ELSE walkGroups(expr, rd, gs, k + 1, KanjiSegments(segs, group), pos)

distributeFurigana(expr, rd) ==
  IF rd = expr \/ rd = <<>>
  THEN NoReadingResult(expr)
  ELSE IF isAllKana(expr)
       THEN NoReadingResult(expr)
       ELSE IF Len(Groups(expr)) = 1
            THEN SingleGroupResult(expr, rd)
            ELSE walkGroups(expr, rd, Groups(expr), 0, <<>>, 0)

\* ------------------------------------------------------------------------
\* Values of the language
\* ------------------------------------------------------------------------

\* an optional property: undefined, or a value
None == [defined |-> FALSE]
Some(v) == [defined |-> TRUE, value |-> v]

\* array.join(sep), for an array of strings
RECURSIVE join(_, _)
join(arr, sep) ==
  IF arr = <<>> THEN <<>>
  ELSE IF Len(arr) = 1 THEN arr[1]
  ELSE arr[1] \o sep \o join(Tail(arr), sep)

\* array.includes(x)
includes(arr, x) == \E k \in 1..Len(arr) : arr[k] = x

\* [...new Set(arr)]: the first occurrence of each element, in order
unique(arr) ==
  LET keep(k) == \A j \in 1..(k - 1) : arr[j] # arr[k]
      F[k \in 0..Len(arr)] ==
        IF k = 0 THEN <<>>
        ELSE IF keep(k) THEN Append(F[k - 1], arr[k]) ELSE F[k - 1]
  IN F[Len(arr)]

\* opt?.includes(x): undefined (falsy) when opt is undefined
optIncludes(opt, x) == opt.defined /\ includes(opt.value, x)

\* String(n)
String(n) == <<ToString(n)>>

\* ------------------------------------------------------------------------
\* Furigana notations (lines 361-386)
\* ------------------------------------------------------------------------

buildFuriganaPlain(expr, rd) ==
  IF rd = <<>> \/ rd = expr
  THEN expr
  ELSE LET segs == distributeFurigana(expr, rd)
       IN join([k \in 1..Len(segs) |->
                  IF segs[k].reading # <<>>
                  THEN segs[k].text \o <<"[">> \o segs[k].reading \o <<"]">>
                  ELSE segs[k].text],
               <<" ">>)

\* a renderer that wraps every segment in a ruby element
buildFuriganaHtmlAllRuby(expr, rd) ==
  IF rd = <<>> \/ rd = expr
  THEN expr
  ELSE LET segs == distributeFurigana(expr, rd)
       IN join([k \in 1..Len(segs) |->
                  <<"<ruby>">> \o segs[k].text \o <<"<rt>">> \o segs[k].reading
                  \o <<"</rt></ruby>">>],
               <<>>)

buildFuriganaHtml(expr, rd) ==
  IF rd = <<>> \/ rd = expr
  THEN expr
  ELSE LET segs == distributeFurigana(expr, rd)
       IN join([k \in 1..Len(segs) |->
                  IF segs[k].reading # <<>>
                  THEN <<"<ruby>">> \o segs[k].text \o <<"<rt>">> \o segs[k].reading
                       \o <<"</rt></ruby>">>
                  ELSE segs[k].text],
               <<>>)

\* ------------------------------------------------------------------------
\* Pitch accent (lines 522-564)
\* ------------------------------------------------------------------------

\* the code points of the 16 small kana of lines 539-556
smallKana ==
  {12419, 12421, 12423, 12353, 12355, 12357, 12359, 12361,
   12515, 12517, 12519, 12449, 12451, 12453, 12455, 12457}

\* a count that takes every character for a mora
countChars(rd) == Len(rd)

countMorae(rd) == Cardinality({k \in 1..Len(rd) : codePointAt(rd[k]) \notin smallKana})

getPitchCategory(rd, position) ==
  LET moraCount == countMorae(rd)
  IN IF position = 0 THEN <<"heiban">>
     ELSE IF position = 1 THEN <<"atamadaka">>
     ELSE IF position = moraCount THEN <<"odaka">>
     ELSE <<"nakadaka">>

\* ------------------------------------------------------------------------
\* Glossary serialization (lines 574-652)
\* ------------------------------------------------------------------------

glossesToStr(sense) ==
  join([k \in 1..Len(sense.g) |->
          IF sense.g[k].type = Some("tm")
          THEN sense.g[k].str \o <<"[U+2122]">>
          ELSE sense.g[k].str],
       <<"; ">>)

serializeSingleSenseBrief(sense) == glossesToStr(sense)

\* opt?.length is truthy
nonEmpty(opt) == opt.defined /\ Len(opt.value) > 0

serializeSingleSenseFull(sense) ==
  LET p1 == IF nonEmpty(sense.pos)
            THEN << <<"<i>(">> \o join(sense.pos.value, <<", ">>) \o <<")</i>">> >>
            ELSE <<>>
      p2 == IF nonEmpty(sense.field)
            THEN << <<"(">> \o join(sense.field.value, <<", ">>) \o <<")">> >>
            ELSE <<>>
      p3 == IF nonEmpty(sense.misc)
            THEN << <<"(">> \o join(sense.misc.value, <<", ">>) \o <<")">> >>
            ELSE <<>>
      p4 == << glossesToStr(sense) >>
      p5 == IF sense.inf.defined /\ sense.inf.value # <<>>
            THEN << <<"(">> \o sense.inf.value \o <<")">> >>
            ELSE <<>>
  IN join(p1 \o p2 \o p3 \o p4 \o p5, <<" ">>)

\* sense.lang && sense.lang !== 'en'
isNative(sense) ==
  sense.lang.defined /\ sense.lang.value # "" /\ sense.lang.value # "en"

\* a serializer that numbers every sense by its place in the list
serializeSensesHtmlByPlace(senses, brief) ==
  LET text(k) == IF brief THEN serializeSingleSenseBrief(senses[k])
                 ELSE serializeSingleSenseFull(senses[k])
      prefix(k) == IF isNative(senses[k])
                   THEN <<"[U+2022] ">>
                   ELSE <<"(">> \o String(k) \o <<") ">>
  IN IF Len(senses) = 0 THEN <<>>
     ELSE IF Len(senses) = 1 THEN text(1)
     ELSE join([k \in 1..Len(senses) |-> prefix(k) \o text(k)], <<"<br>">>)

serializeSensesHtml(senses, brief) ==
  LET text(k) == IF brief THEN serializeSingleSenseBrief(senses[k])
                 ELSE serializeSingleSenseFull(senses[k])
      \* enIndex when sense k is reached
      enIndex(k) == 1 + Cardinality({j \in 1..(k - 1) : ~isNative(senses[j])})
      prefix(k) == IF isNative(senses[k])
                   THEN <<"[U+2022] ">>
                   ELSE <<"(">> \o String(enIndex(k)) \o <<") ">>
  IN IF Len(senses) = 0 THEN <<>>
     ELSE IF Len(senses) = 1 THEN text(1)
     ELSE join([k \in 1..Len(senses) |-> prefix(k) \o text(k)], <<"<br>">>)

serializeSensesPlain(senses) ==
  IF Len(senses) = 0 THEN <<>>
  ELSE join([k \in 1..Len(senses) |->
               (IF Len(senses) > 1 THEN <<"(">> \o String(k) \o <<") ">> ELSE <<>>)
               \o glossesToStr(senses[k])],
            <<"\n">>)

\* ------------------------------------------------------------------------
\* Marker value builder (lines 85-350)
\* ------------------------------------------------------------------------

\* The l10n keys of the deinflection reasons (background/deinflect): reasons
\* 0 and 1 have a key, any other code has none.
deinflectL10NKeys(r) ==
  CASE r = 0 -> Some(<<"deinflect_", "polite", "_", "past">>)
    [] r = 1 -> Some(<<"deinflect_", "passive">>)
    [] OTHER -> None

\* key.replace('deinflect_', ''): the first occurrence only
removeFirst(key, piece) ==
  LET at == {k \in 1..Len(key) : key[k] = piece}
  IN IF at = {} THEN key
     ELSE LET first == CHOOSE k \in at : \A j \in at : k <= j
          IN SubSeq(key, 1, first - 1) \o SubSeq(key, first + 1, Len(key))

\* key.replace(/_/g, ' ')
underscoresToSpaces(key) ==
  [k \in 1..Len(key) |-> IF key[k] = "_" THEN " " ELSE key[k]]

reasonLabel(r) ==
  LET key == deinflectL10NKeys(r)
  IN IF key.defined
     THEN underscoresToSpaces(removeFirst(key.value, "deinflect_"))
     ELSE String(r)

\* lines 157-170
conjugationOf(word) ==
  IF word.reasonChains.defined /\ Len(word.reasonChains.value) > 0
  THEN LET chains == word.reasonChains.value
       IN join([c \in 1..Len(chains) |->
                  join([k \in 1..Len(chains[c]) |-> reasonLabel(chains[c][k])],
                       <<" [U+00AB] ">>)],
               <<", ">>)
  ELSE <<>>

\* flatten an array of arrays
RECURSIVE flat(_)
flat(arrs) == IF arrs = <<>> THEN <<>> ELSE Head(arrs) \o flat(Tail(arrs))

optList(opt) == IF opt.defined THEN opt.value ELSE <<>>

\* lines 140-154: the (position, category) pairs, in order
pitchOf(readings) ==
  flat([k \in 1..Len(readings) |->
          LET r == readings[k]
          IN IF r.a.kind = "number"
             THEN << [position |-> String(r.a.value),
                      category |-> getPitchCategory(r.ent, r.a.value)] >>
             ELSE IF r.a.kind = "array"
                  THEN [j \in 1..Len(r.a.items) |->
                          [position |-> String(r.a.items[j].i),
                           category |-> getPitchCategory(r.ent, r.a.items[j].i)]]
                  ELSE <<>>])

\* `${context?.field}`: the text undefined for a missing field
contextFieldInterpolated(context, name) ==
  IF context.defined /\ context.value[name].defined
  THEN context.value[name].value
  ELSE <<"undefined">>

\* context?.field ?? ''
contextField(context, name) ==
  IF context.defined /\ context.value[name].defined
  THEN context.value[name].value
  ELSE <<>>

\* lines 104-106
kanjiHeadwordsOf(word) ==
  IF word.k.defined
  THEN SelectSeq(word.k.value, LAMBDA k : ~optIncludes(k.i, "sK"))
  ELSE <<>>

\* the readings with none left out
allReadingsOf(word) == word.r

\* line 112
readingsOf(word) == SelectSeq(word.r, LAMBDA r : ~optIncludes(r.i, "sk"))

\* a test that takes a rank of 0 for no rank
hasTruthyFrequencyRank(word) == word.frequencyRank.defined /\ word.frequencyRank.value # 0

\* word.frequencyRank !== undefined (lines 223, 227, 230)
hasFrequencyRank(word) == word.frequencyRank.defined

\* lines 108-110
wordExpression(word) ==
  IF Len(kanjiHeadwordsOf(word)) > 0
  THEN kanjiHeadwordsOf(word)[1].ent
  ELSE IF Len(word.r) > 0 THEN word.r[1].ent ELSE <<>>

\* line 113
wordReading(word) ==
  IF Len(readingsOf(word)) > 0 THEN readingsOf(word)[1].ent ELSE <<>>

buildWordMarkers(word, context) ==
  LET expr == wordExpression(word)
      readings == readingsOf(word)
      rd == wordReading(word)
      readingRomaji ==
        join([k \in 1..Len(readings) |-> optList(readings[k].romaji)], <<", ">>)
      furiganaPlain == buildFuriganaPlain(expr, rd)
      furiganaHtml == buildFuriganaHtml(expr, rd)
      glossaryFull == serializeSensesHtml(word.s, FALSE)
      glossaryBrief == serializeSensesHtml(word.s, TRUE)
      glossaryPlain == serializeSensesPlain(word.s)
      glossaryFirstBrief ==
        IF Len(word.s) > 0 THEN serializeSingleSenseBrief(word.s[1]) ELSE <<>>
      glossaryFirstFull ==
        IF Len(word.s) > 0 THEN serializeSingleSenseFull(word.s[1]) ELSE <<>>
      partOfSpeech ==
        join(unique(flat([k \in 1..Len(word.s) |-> optList(word.s[k].pos)])), <<", ">>)
      pitch == pitchOf(readings)
      pitchPositions == join([k \in 1..Len(pitch) |-> pitch[k].position], <<", ">>)
      pitchCategories == join([k \in 1..Len(pitch) |-> pitch[k].category], <<", ">>)
      conjugation == conjugationOf(word)
      tagsStr ==
        join(unique(flat([k \in 1..Len(word.s) |->
                            optList(word.s[k].pos) \o optList(word.s[k].misc)
                            \o optList(word.s[k].field)])),
             <<", ">>)
      rank == word.frequencyRank
  IN ("expression" :> expr)
     @@ ("reading" :> rd)
     @@ ("furigana" :> furiganaHtml)
     @@ ("furigana-plain" :> furiganaPlain)
     @@ ("glossary" :> glossaryFull)
     @@ ("glossary-brief" :> glossaryBrief)
     @@ ("glossary-no-dictionary" :> glossaryBrief)
     @@ ("glossary-plain" :> glossaryPlain)
     @@ ("glossary-plain-no-dictionary" :> glossaryPlain)
     @@ ("glossary-first" :> glossaryFirstFull)
     @@ ("glossary-first-brief" :> glossaryFirstBrief)
     @@ ("glossary-first-no-dictionary" :> glossaryFirstBrief)
     @@ ("part-of-speech" :> partOfSpeech)
     @@ ("conjugation" :> conjugation)
     @@ ("pitch-accent-positions" :> pitchPositions)
     @@ ("pitch-accent-categories" :> pitchCategories)
     @@ ("pitch-accents" :> pitchPositions)
     @@ ("sentence" :> contextField(context, "sentence"))
     @@ ("url" :> contextField(context, "url"))
     @@ ("document-title" :> contextField(context, "documentTitle"))
     @@ ("search-query" :> expr)
     @@ ("tags" :> tagsStr)
     @@ ("audio" :> <<>>)
     @@ ("screenshot" :> <<>>)
     @@ ("clipboard-image" :> <<>>)
     @@ ("clipboard-text" :> <<>>)
     @@ ("popup-selection-text" :> <<>>)
     @@ ("sentence-furigana" :> <<>>)
     @@ ("sentence-furigana-plain" :> <<>>)
     @@ ("frequencies" :>
           IF hasFrequencyRank(word)
           THEN <<"<ul style=\"text-align: left;\"><li>Global: ">> \o String(rank.value)
                \o <<"</li></ul>">>
           ELSE <<>>)
     @@ ("frequency-harmonic-rank" :> IF hasFrequencyRank(word) THEN String(rank.value) ELSE <<>>)
     @@ ("frequency-harmonic-occurrence" :> <<>>)
     @@ ("frequency-average-rank" :> IF hasFrequencyRank(word) THEN String(rank.value) ELSE <<>>)
     @@ ("frequency-average-occurrence" :> <<>>)
     @@ ("cloze-body" :> expr)
     @@ ("cloze-body-kana" :> rd)
     @@ ("cloze-prefix" :> <<>>)
     @@ ("cloze-suffix" :> <<>>)
     @@ ("phonetic-transcriptions" :> <<>>)
     @@ ("pitch-accent-graphs" :> <<>>)
     @@ ("pitch-accent-graphs-jj" :> <<>>)
     @@ ("dictionary" :> <<>>)
     @@ ("dictionary-alias" :> <<>>)
     @@ ("reading-romaji" :> readingRomaji)
     @@ ("definition" :> glossaryBrief)
     @@ ("tags-pos" :> partOfSpeech)

buildKanjiMarkers(kanji, context) ==
  LET onReadings == optList(kanji.r.on)
      kunReadings == optList(kanji.r.kun)
      allReadings == join(onReadings \o kunReadings, <<"[U+3001]">>)
      meanings == join(kanji.m, <<", ">>)
      first == IF Len(kanji.m) > 0 THEN kanji.m[1] ELSE <<>>
  IN ("expression" :> kanji.c)
     @@ ("character" :> kanji.c)
     @@ ("reading" :> allReadings)
     @@ ("onyomi" :> join(onReadings, <<"[U+3001]">>))
     @@ ("kunyomi" :> join(kunReadings, <<"[U+3001]">>))
     @@ ("glossary" :> meanings)
     @@ ("glossary-brief" :> meanings)
     @@ ("glossary-plain" :> meanings)
     @@ ("glossary-first" :> first)
     @@ ("glossary-first-brief" :> first)
     @@ ("definition" :> meanings)
     @@ ("stroke-count" :>
           IF kanji.misc.defined /\ kanji.misc.value.sc # 0
           THEN String(kanji.misc.value.sc)
           ELSE <<>>)
     @@ ("url" :> contextField(context, "url"))
     @@ ("document-title" :> contextField(context, "documentTitle"))
     @@ ("sentence" :> contextField(context, "sentence"))
     @@ ("furigana" :> kanji.c)
     @@ ("furigana-plain" :> kanji.c)
     @@ ("tags" :> <<>>)
     @@ ("tags-pos" :> <<>>)
     @@ ("part-of-speech" :> <<>>)
     @@ ("reading-romaji" :> <<>>)
     @@ ("audio" :> <<>>)
     @@ ("popup-selection-text" :> <<>>)
     @@ ("pitch-accent-positions" :> <<>>)
     @@ ("pitch-accent-categories" :> <<>>)
     @@ ("pitch-accents" :> <<>>)
     @@ ("frequencies" :> <<>>)
     @@ ("frequency-harmonic-rank" :> <<>>)
     @@ ("frequency-harmonic-occurrence" :> <<>>)
     @@ ("frequency-average-rank" :> <<>>)
     @@ ("frequency-average-occurrence" :> <<>>)
     @@ ("conjugation" :> <<>>)
     @@ ("search-query" :> kanji.c)

\* line 302: an array, empty or not, is truthy
nameExpression(name) ==
  IF name.k.defined THEN join(name.k.value, <<"[U+3001]">>) ELSE join(name.r, <<"[U+3001]">>)

buildNameMarkers(name, context) ==
  LET expr == nameExpression(name)
      rd == join(name.r, <<"[U+3001]">>)
      definitions ==
        [k \in 1..Len(name.tr) |->
           join((IF nonEmpty(name.tr[k].type)
                 THEN << <<"(">> \o join(name.tr[k].type.value, <<", ">>) \o <<")">> >>
                 ELSE <<>>)
                \o << join(name.tr[k].det, <<", ">>) >>,
                <<" ">>)]
      definition == join(definitions, <<"; ">>)
      firstDefinition == IF Len(definitions) > 0 THEN definitions[1] ELSE <<>>
      primaryReading == IF Len(name.r) > 0 THEN name.r[1] ELSE <<>>
      primaryExpr == IF name.k.defined /\ Len(name.k.value) > 0
                     THEN name.k.value[1]
                     ELSE primaryReading
  IN ("expression" :> expr)
     @@ ("reading" :> rd)
     @@ ("glossary" :> definition)
     @@ ("glossary-brief" :> definition)
     @@ ("glossary-plain" :> definition)
     @@ ("glossary-first" :> firstDefinition)
     @@ ("glossary-first-brief" :> firstDefinition)
     @@ ("definition" :> definition)
     @@ ("furigana" :> buildFuriganaPlain(primaryExpr, primaryReading))
     @@ ("furigana-plain" :> buildFuriganaPlain(primaryExpr, primaryReading))
     @@ ("url" :> contextField(context, "url"))
     @@ ("document-title" :> contextField(context, "documentTitle"))
     @@ ("sentence" :> contextField(context, "sentence"))
     @@ ("tags" :> <<>>)
     @@ ("tags-pos" :> <<>>)
     @@ ("part-of-speech" :> <<>>)
     @@ ("reading-romaji" :> <<>>)
     @@ ("audio" :> <<>>)
     @@ ("popup-selection-text" :> <<>>)
     @@ ("pitch-accent-positions" :> <<>>)
     @@ ("pitch-accent-categories" :> <<>>)
     @@ ("pitch-accents" :> <<>>)
     @@ ("frequencies" :> <<>>)
     @@ ("frequency-harmonic-rank" :> <<>>)
     @@ ("frequency-harmonic-occurrence" :> <<>>)
     @@ ("frequency-average-rank" :> <<>>)
     @@ ("frequency-average-occurrence" :> <<>>)
     @@ ("conjugation" :> <<>>)
     @@ ("search-query" :> expr)

\* lines 85-97
buildMarkerValues(entry, context) ==
  CASE entry.type = "word" -> buildWordMarkers(entry.data, context)
    [] entry.type = "kanji" -> buildKanjiMarkers(entry.data, context)
    [] entry.type = "name" -> buildNameMarkers(entry.data, context)

\* the marker vocabulary (common/anki-types, ANKI_FIELD_MARKERS)
ANKI_FIELD_MARKERS ==
  {"expression", "reading", "reading-romaji", "furigana", "furigana-plain",
   "glossary", "glossary-brief", "glossary-plain", "glossary-no-dictionary",
   "glossary-plain-no-dictionary", "glossary-first", "glossary-first-brief",
   "glossary-first-no-dictionary", "definition",
   "part-of-speech", "tags-pos", "tags", "conjugation",
   "pitch-accent-positions", "pitch-accent-categories", "pitch-accents",
   "pitch-accent-graphs", "pitch-accent-graphs-jj",
   "sentence", "sentence-furigana", "sentence-furigana-plain", "url",
   "document-title", "search-query",
   "cloze-body", "cloze-body-kana", "cloze-prefix", "cloze-suffix",
   "audio", "screenshot", "clipboard-image", "clipboard-text",
   "popup-selection-text",
   "frequencies", "frequency-harmonic-rank", "frequency-harmonic-occurrence",
   "frequency-average-rank", "frequency-average-occurrence",
   "phonetic-transcriptions",
   "dictionary", "dictionary-alias",
   "character", "onyomi", "kunyomi", "stroke-count"}

\* ------------------------------------------------------------------------
\* Objects of the language used as maps (markerValues, fields)
\* ------------------------------------------------------------------------

\* the function-valued properties every plain object inherits
ObjectPrototypeMethods ==
  {"constructor", "toString", "toLocaleString", "valueOf", "hasOwnProperty",
   "isPrototypeOf", "propertyIsEnumerable"}

getOwnPropertyOnly(obj, name) ==
  IF name \in DOMAIN obj THEN [kind |-> "own", value |-> obj[name]]
  ELSE [kind |-> "undefined", value |-> <<>>]

\* obj[name]: an own property, else what the prototype gives, else undefined
getProperty(obj, name) ==
  IF name \in DOMAIN obj THEN [kind |-> "own", value |-> obj[name]]
  ELSE IF name \in ObjectPrototypeMethods THEN [kind |-> "function", value |-> <<>>]
  ELSE IF name = "__proto__" THEN [kind |-> "object", value |-> <<>>]
  ELSE [kind |-> "undefined", value |-> <<>>]

\* an assignment that leaves a key already present alone
setPropertyIfAbsent(obj, key, value) ==
  IF key = "__proto__" \/ key \in DOMAIN obj THEN obj ELSE (key :> value) @@ obj

\* obj[key] = value, for a string value: the __proto__ setter ignores it
setProperty(obj, key, value) ==
  IF key = "__proto__" THEN obj ELSE (key :> value) @@ obj

\* ------------------------------------------------------------------------
\* Template rendering (lines 664-672)
\* ------------------------------------------------------------------------

\* A template is a sequence of pieces: "{", "}", "-", a run of word
\* characters, or a run of other characters.
NonWordText == {" ", ": ", "\n"}

\* \w+
isWordRun(piece) == piece \notin ({"{", "}", "-"} \cup NonWordText)

\* [\w-]*
isNameTail(piece) == isWordRun(piece) \/ piece = "-"

RECURSIVE concatPieces(_)
concatPieces(pieces) ==
  IF pieces = <<>> THEN "" ELSE Head(pieces) \o concatPieces(Tail(pieces))

\* what the replace callback returns, as String.prototype.replace writes it
replacement(markerValues, markerName) ==
  LET v == getProperty(markerValues, markerName)
  IN CASE v.kind = "own" -> v.value
       [] v.kind = "undefined" -> <<>>
       [] v.kind = "function" ->
            <<"function ", IF markerName = "constructor" THEN "Object" ELSE markerName,
              "() { [native code] }">>
       [] v.kind = "object" -> <<"[object Object]">>

\* the end of the match of /\{([\w][\w-]*)\}/ that starts at p, or 0
matchEnd(template, p) ==
  IF template[p] = "{" /\ p + 1 <= Len(template) /\ isWordRun(template[p + 1])
  THEN LET stops == {q \in (p + 2)..(Len(template) + 1) :
                       q > Len(template) \/ ~isNameTail(template[q])}
           q == CHOOSE x \in stops : \A y \in stops : x <= y
       IN IF q <= Len(template) /\ template[q] = "}" THEN q ELSE 0
  ELSE 0

RECURSIVE replaceFrom(_, _, _)
replaceFrom(template, markerValues, p) ==
  IF p > Len(template) THEN <<>>
  ELSE LET q == matchEnd(template, p)
       IN IF q > 0
          THEN replacement(markerValues, concatPieces(SubSeq(template, p + 1, q - 1)))
               \o replaceFrom(template, markerValues, q + 1)
          ELSE <<template[p]>> \o replaceFrom(template, markerValues, p + 1)

\* a renderer that scans its own output once more
renderFieldTemplateRescanned(template, markerValues) ==
  replaceFrom(replaceFrom(template, markerValues, 1), markerValues, 1)

renderFieldTemplate(template, markerValues) == replaceFrom(template, markerValues, 1)

\* ------------------------------------------------------------------------
\* Frequency data (background/frequency-data.ts)
\* ------------------------------------------------------------------------

\* kanaToHiragana of the normal-jp package: katakana become hiragana, other
\* characters stay
kanaToHiragana(text) ==
  [k \in 1..Len(text) |->
     LET code == codePointAt(text[k])
     IN IF code >= 12449 /\ code <= 12534
        THEN fromCodePoint(code - 96)
        ELSE text[k]]

\* new Map()
EmptyMap == [key \in {} |-> 0]

\* Map.prototype.get
mapGet(map, key) == IF key \in DOMAIN map THEN Some(map[key]) ELSE None

\* if (!map.has(key) || map.get(key)! > rank) map.set(key, rank)
setIfLower(map, key, rank) ==
  IF key \notin DOMAIN map \/ map[key] > rank THEN (key :> rank) @@ map ELSE map

\* normWord + '\t' + normForm
compositeKey(normWord, normForm) == normWord \o <<"\t">> \o normForm

\* lines 147-165 for the rows from the k-th on; a row is a line of the file
\* that passed the checks of lines 123-143, as its word, form and rank
RECURSIVE buildIndexes(_, _, _, _)
buildIndexes(rows, k, pairs, singles) ==
  IF k > Len(rows) THEN [pairs |-> pairs, singles |-> singles]
  ELSE LET rank == rows[k].rank
           normWord == kanaToHiragana(rows[k].word)
           normForm == kanaToHiragana(rows[k].form)
           singles1 == setIfLower(singles, normWord, rank)
       IN buildIndexes(rows, k + 1,
                       setIfLower(pairs, compositeKey(normWord, normForm), rank),
                       IF normForm # normWord
                       THEN setIfLower(singles1, normForm, rank)
                       ELSE singles1)

\* kanjiHeadword ? kanaToHiragana(kanjiHeadword) : undefined
normalized(arg) ==
  IF arg.defined /\ arg.value # <<>> THEN Some(kanaToHiragana(arg.value)) ELSE None

\* a lookup that tries the single keys when the pair is not indexed
getFrequencyRankWithFallback(pairs, singles, kanjiHeadword, kanaReading) ==
  IF ~pairs.defined \/ ~singles.defined THEN None
  ELSE LET normKanji == normalized(kanjiHeadword)
           normKana == normalized(kanaReading)
       IN IF normKanji.defined /\ normKana.defined
          THEN LET byPair == mapGet(pairs.value,
                                    compositeKey(normKanji.value, normKana.value))
                   byKanji == mapGet(singles.value, normKanji.value)
               IN IF byPair.defined THEN byPair
                  ELSE IF byKanji.defined THEN byKanji
                  ELSE mapGet(singles.value, normKana.value)
          ELSE IF normKanji.defined THEN mapGet(singles.value, normKanji.value)
          ELSE IF normKana.defined THEN mapGet(singles.value, normKana.value)
          ELSE None

\* lines 76-104
getFrequencyRank(pairs, singles, kanjiHeadword, kanaReading) ==
  IF ~pairs.defined \/ ~singles.defined THEN None
  ELSE LET normKanji == normalized(kanjiHeadword)
           normKana == normalized(kanaReading)
       IN IF normKanji.defined /\ normKana.defined
          THEN mapGet(pairs.value, compositeKey(normKanji.value, normKana.value))
          ELSE IF normKanji.defined THEN mapGet(singles.value, normKanji.value)
          ELSE IF normKana.defined THEN mapGet(singles.value, normKana.value)
          ELSE None

\* ------------------------------------------------------------------------
\* distributeFurigana as a process: one call, one step per loop iteration
\* ------------------------------------------------------------------------

VARIABLES
  expression,      \* distributeFurigana: the argument
  reading,         \* distributeFurigana: the argument
  pc,              \* "idle", "start", "walk" (the loop of line 441), "done"
  exit,            \* which return statement ended the call
  groups,          \* the partition of the expression
  i,               \* loop index
  segments,        \* segments built so far
  readingPos,      \* cursor in the reading
  result,          \* the returned array
  entry,           \* buildAnkiNote: the argument, [type, data]
  context,         \* buildAnkiNote: the argument, optional
  settings,        \* buildAnkiNote: the argument
  markerOverrides, \* buildAnkiNote: the argument, optional, as Object.entries lists it
  markerValues,    \* the marker map
  fields,          \* the note's fields so far
  overrideIdx,     \* overrides applied so far (loop of lines 49-51)
  fieldIdx,        \* templates rendered so far (loop of lines 54-56)
  notePc,          \* "idle", "start", "run", "done"
  note,            \* the returned note
  call,            \* a call of one of the helper functions: its name and arguments
  returned,        \* what the call returned, once it has
  csv,             \* the rows of data/frequency_list_global.csv
  pairMap,         \* frequency-data: composite key -> rank, or undefined
  singleMap,       \* frequency-data: word or form -> best rank, or undefined
  loadPromise,     \* frequency-data: "undefined", "pending", "fulfilled"
  doLoadCount,     \* how often doLoad was called, and with it fetch
  errorLogged,     \* doLoad reported a failure (line 171)
  callsLeft,       \* calls of loadFrequencyData still to come
  lastReturn,      \* what the last call of loadFrequencyData returned:
                   \* "none", "resolved" (a fresh resolved promise), "loadPromise"
  audioCall,       \* fetchAndStoreAudio: the arguments
  audioPc,         \* "idle", "fetching", "storing", "done"
  sourceIdx,       \* place of the source at hand in DEFAULT_AUDIO_SOURCES
  audioLog,        \* what was asked of the sources and of Anki, and what came back
  audioReturned,   \* what fetchAndStoreAudio resolved to, once it has
  ankiEnabled,     \* AnkiConnect._enabled
  ankiServer,      \* AnkiConnect._server
  ankiApiKey,      \* AnkiConnect._apiKey
  remoteVersion,   \* AnkiConnect._remoteVersion
  versionCheckPromise, \* AnkiConnect._versionCheckPromise and its promise's state
  checkWaiters,    \* the operations awaiting the pending promise, in order
  microtasks,      \* the reactions queued by the settled promise, in order
  requests,        \* the calls of _invoke that have not settled
  sentActions,     \* every request handed to fetch so far
  versionsReturned, \* what the version requests of the check have returned
  ankiOps,         \* the operations called so far and where each stands
  checksIssued,    \* how many promises _checkVersion has created
  ankiPlan,        \* the calls the client's users will make
  settersLeft,     \* how many more times a setter is called
  buttonProps,     \* AnkiButton: whether props.note and props.onAddToAnki are given
  buttonState,     \* AnkiButton: state
  errorMsg,        \* AnkiButton: errorMsg
  pendingCalls,    \* the calls of onAddToAnki that have not settled
  resetTimers,     \* the outstanding setTimeout callbacks, counted by delay
  clicksLeft,      \* how many more times the user clicks
  lastClick        \* what the last click did ("none", "ignored", "started") and
                   \* the state it was received in

furiganaVars ==
  <<expression, reading, pc, exit, groups, i, segments, readingPos, result>>

noteVars ==
  <<entry, context, settings, markerOverrides, markerValues, fields, overrideIdx,
    fieldIdx, notePc, note>>

helperVars == <<call, returned>>

frequencyVars ==
  <<csv, pairMap, singleMap, loadPromise, doLoadCount, errorLogged, callsLeft, lastReturn>>

audioVars == <<audioCall, audioPc, sourceIdx, audioLog, audioReturned>>

ankiVars ==
  <<ankiEnabled, ankiServer, ankiApiKey, remoteVersion, versionCheckPromise,
    checkWaiters, microtasks, requests, sentActions, versionsReturned, ankiOps,
    checksIssued, ankiPlan, settersLeft>>

buttonVars ==
  <<buttonProps, buttonState, errorMsg, pendingCalls, resetTimers, clicksLeft, lastClick>>

\* the state of the background page and of the popup's button
extensionVars == <<frequencyVars, audioVars, ankiVars, buttonVars>>

vars == <<furiganaVars, noteVars, helperVars, extensionVars>>

\* the frequency module as it is before anything loads it
FrequencyIdle ==
  /\ csv = <<>>
  /\ pairMap = None
  /\ singleMap = None
  /\ loadPromise = "undefined"
  /\ doLoadCount = 0
  /\ errorLogged = FALSE
  /\ callsLeft = 0
  /\ lastReturn = "none"

\* no call of fetchAndStoreAudio is being followed
AudioIdle ==
  /\ audioCall = [fn |-> "none"]
  /\ audioPc = "idle"
  /\ sourceIdx = 0
  /\ audioLog = <<>>
  /\ audioReturned = None

\* AnkiConnect.server (null) and the addresses it is set to
NoServer == "null"

\* AnkiConnect._versionCheckPromise = null
NoPromise == [state |-> "null"]

\* the client as constructed, with no caller
AnkiIdle ==
  /\ ankiEnabled = FALSE
  /\ ankiServer = NoServer
  /\ ankiApiKey = None
  /\ remoteVersion = 0
  /\ versionCheckPromise = NoPromise
  /\ checkWaiters = <<>>
  /\ microtasks = <<>>
  /\ requests = {}
  /\ sentActions = {}
  /\ versionsReturned = {}
  /\ ankiOps = <<>>
  /\ checksIssued = 0
  /\ ankiPlan = [kinds |-> {}, limit |-> 0]
  /\ settersLeft = 0

\* the delays of the two resets to idle
AddedResetDelay == 2000

ErrorResetDelay == 3000

ResetDelays == {AddedResetDelay, ErrorResetDelay}

\* no button is mounted
ButtonIdle ==
  /\ buttonProps = [note |-> FALSE, onAddToAnki |-> FALSE]
  /\ buttonState = "idle"
  /\ errorMsg = None
  /\ pendingCalls = 0
  /\ resetTimers = [d \in ResetDelays |-> 0]
  /\ clicksLeft = 0
  /\ lastClick = [did |-> "none", state |-> "idle"]

\* nothing happens in the background page nor at the button
ExtensionIdle == FrequencyIdle /\ AudioIdle /\ AnkiIdle /\ ButtonIdle

\* no helper function is being called on its own
HelpersIdle ==
  /\ call = [fn |-> "none"]
  /\ returned = None

readingNorm == katakanaToHiragana(reading)

\* no call of distributeFurigana is being followed
FuriganaIdle ==
  /\ expression = <<>>
  /\ reading = <<>>
  /\ pc = "idle"
  /\ exit = "none"
  /\ groups = <<>>
  /\ i = 0
  /\ segments = <<>>
  /\ readingPos = 0
  /\ result = <<>>

\* no call of buildAnkiNote is being followed
NoteIdle ==
  /\ entry = [type |-> "none"]
  /\ context = None
  /\ settings = [deckName |-> ""]
  /\ markerOverrides = None
  /\ markerValues = <<>>
  /\ fields = <<>>
  /\ overrideIdx = 0
  /\ fieldIdx = 0
  /\ notePc = "idle"
  /\ note = None

\* A headword is a non-empty string of kanji and kana, a reading a string of
\* kana; the empty reading is what an entry without readings gives.
InitFurigana ==
  /\ expression \in Strings(Chars, 1, MaxExprLen)
  /\ reading \in Strings(KanaChars, 0, MaxReadLen)
  /\ pc = "start"
  /\ exit = "none"
  /\ groups = <<>>
  /\ i = 0
  /\ segments = <<>>
  /\ readingPos = 0
  /\ result = <<>>
  /\ NoteIdle
  /\ ExtensionIdle
  /\ HelpersIdle

Return(how, value) ==
  /\ pc' = "done"
  /\ exit' = how
  /\ result' = value

\* lines 401-403
ReturnNoReading ==
  /\ pc = "start"
  /\ (reading = expression \/ reading = <<>>)
  /\ Return("noReading", NoReadingResult(expression))
  /\ UNCHANGED <<expression, reading, groups, i, segments, readingPos>>
  /\ UNCHANGED <<noteVars, helperVars, extensionVars>>

\* lines 406-408
ReturnAllKana ==
  /\ pc = "start"
  /\ ~(reading = expression \/ reading = <<>>)
  /\ isAllKana(expression)
  /\ Return("allKana", NoReadingResult(expression))
  /\ UNCHANGED <<expression, reading, groups, i, segments, readingPos>>
  /\ UNCHANGED <<noteVars, helperVars, extensionVars>>

\* lines 410-434
ReturnSingleGroup ==
  /\ pc = "start"
  /\ ~(reading = expression \/ reading = <<>>)
  /\ ~isAllKana(expression)
  /\ Len(Groups(expression)) = 1
  /\ groups' = Groups(expression)
  /\ Return("singleGroup", SingleGroupResult(expression, reading))
  /\ UNCHANGED <<expression, reading, i, segments, readingPos>>
  /\ UNCHANGED <<noteVars, helperVars, extensionVars>>

\* lines 410-439
BeginWalk ==
  /\ pc = "start"
  /\ ~(reading = expression \/ reading = <<>>)
  /\ ~isAllKana(expression)
  /\ Len(Groups(expression)) # 1
  /\ groups' = Groups(expression)
  /\ segments' = <<>>
  /\ readingPos' = 0
  /\ i' = 0
  /\ pc' = "walk"
  /\ UNCHANGED <<expression, reading, exit, result>>
  /\ UNCHANGED <<noteVars, helperVars, extensionVars>>

\* lines 444-464
WalkKanaFound ==
  /\ pc = "walk"
  /\ i < Len(groups)
  /\ groups[i + 1].isKana
  /\ LET group == groups[i + 1]
         foundIdx == FoundIdx(group, reading, readingPos)
     IN /\ foundIdx >= 0
        /\ segments' = KanaFoundSegments(segments, group, reading, readingPos, foundIdx)
        /\ readingPos' = CursorAfter(group, foundIdx)
  /\ i' = i + 1
  /\ UNCHANGED <<expression, reading, pc, exit, groups, result>>
  /\ UNCHANGED <<noteVars, helperVars, extensionVars>>

\* lines 465-468
WalkKanaNotFound ==
  /\ pc = "walk"
  /\ i < Len(groups)
  /\ groups[i + 1].isKana
  /\ FoundIdx(groups[i + 1], reading, readingPos) < 0
  /\ Return("fallback", FallbackResult(expression, reading))
  /\ UNCHANGED <<expression, reading, groups, i, segments, readingPos>>
  /\ UNCHANGED <<noteVars, helperVars, extensionVars>>

\* lines 469-472
WalkKanji ==
  /\ pc = "walk"
  /\ i < Len(groups)
  /\ ~groups[i + 1].isKana
  /\ segments' = KanjiSegments(segments, groups[i + 1])
  /\ i' = i + 1
  /\ UNCHANGED <<expression, reading, pc, exit, groups, readingPos, result>>
  /\ UNCHANGED <<noteVars, helperVars, extensionVars>>

\* lines 475-485
ReturnSegments ==
  /\ pc = "walk"
  /\ i >= Len(groups)
  /\ segments' = AssignRemaining(segments, reading, readingPos)
  /\ Return("end", AssignRemaining(segments, reading, readingPos))
  /\ UNCHANGED <<expression, reading, groups, i, readingPos>>
  /\ UNCHANGED <<noteVars, helperVars, extensionVars>>

NextFurigana ==
  \/ ReturnNoReading
  \/ ReturnAllKana
  \/ ReturnSingleGroup
  \/ BeginWalk
  \/ WalkKanaFound
  \/ WalkKanaNotFound
  \/ WalkKanji
  \/ ReturnSegments

SpecFurigana == InitFurigana /\ [][NextFurigana]_vars

\* ------------------------------------------------------------------------
\* Inputs of buildAnkiNote
\* ------------------------------------------------------------------------

\* all arrays over a set of items, of length lo..hi
Lists(items, lo, hi) == UNION {[1..n -> items] : n \in lo..hi}

\* kanji headwords: plain, search-only (sK), rarely used (rK), both
KanjiHeadwordItems ==
  { [ent |-> <<"shoku", "be", "ru">>, i |-> None],
    [ent |-> <<"shoku", "be", "ru">>, i |-> Some(<<"sK">>)],
    [ent |-> <<"shoku", "BE">>, i |-> Some(<<"rK">>)],
    [ent |-> <<"shoku", "BE">>, i |-> Some(<<"rK", "sK">>)] }

NoAccent == [kind |-> "undefined", value |-> 0, items |-> <<>>]
AccentNumber(n) == [kind |-> "number", value |-> n, items |-> <<>>]
AccentArray(items) == [kind |-> "array", value |-> 0, items |-> items]

\* readings: plain, search-only kana (sk), irregular (ik), both
ReadingItems ==
  { [ent |-> <<"ta", "be", "ru">>, i |-> None, romaji |-> Some(<<"taberu">>), a |-> NoAccent],
    [ent |-> <<"ta", "be", "ru">>, i |-> Some(<<"sk">>), romaji |-> Some(<<"taberu">>), a |-> NoAccent],
    [ent |-> <<"BE", "ru">>, i |-> Some(<<"ik">>), romaji |-> None, a |-> NoAccent],
    [ent |-> <<"BE", "ru">>, i |-> Some(<<"ik", "sk">>), romaji |-> None, a |-> NoAccent] }

SenseEat ==
  [g |-> << [str |-> <<"to eat">>, type |-> None] >>,
   pos |-> Some(<< <<"v1">>, <<"vt">> >>), field |-> None, misc |-> None, inf |-> None,
   lang |-> None]

SenseLive ==
  [g |-> << [str |-> <<"to live on">>, type |-> None],
            [str |-> <<"Taberu">>, type |-> Some("tm")] >>,
   pos |-> Some(<< <<"v1">> >>), field |-> Some(<< <<"food">> >>), misc |-> Some(<< <<"uk">> >>),
   inf |-> Some(<<"esp. of animals">>), lang |-> Some("en")]

SenseNative ==
  [g |-> << [str |-> <<"essen">>, type |-> None] >>,
   pos |-> None, field |-> None, misc |-> None, inf |-> None, lang |-> Some("de")]

Word(k, r, s, reasonChains, frequencyRank) ==
  [type |-> "word",
   data |-> [k |-> k, r |-> r, s |-> s, reasonChains |-> reasonChains,
             frequencyRank |-> frequencyRank]]

\* words that differ in their headwords and readings
WordsByHeadword ==
  { Word(k, r, <<SenseEat>>, None, None) :
      k \in {None} \cup {Some(l) : l \in Lists(KanjiHeadwordItems, 0, MaxHeadwords)},
      r \in Lists(ReadingItems, 0, MaxReadings) }

\* words that differ in their senses, accents, reasons and rank
WordsByDetail ==
  { Word(Some(<< [ent |-> <<"shoku", "be", "ru">>, i |-> None] >>),
         << [ent |-> <<"ta", "be", "ru">>, i |-> None, romaji |-> Some(<<"taberu">>),
             a |-> a] >>,
         s, reasonChains, frequencyRank) :
      a \in {NoAccent, AccentNumber(2), AccentArray(<< [i |-> 0], [i |-> 3] >>)},
      s \in {<<>>, <<SenseEat>>, <<SenseEat, SenseLive>>, <<SenseNative, SenseEat, SenseLive>>},
      reasonChains \in {None, Some(<<>>), Some(<< <<0, 1>>, <<7>> >>)},
      frequencyRank \in {None, Some(0), Some(1200)} }

\* readings with accent data: a number, none, search-only kana with a number,
\* small kana with two accents, an empty accent list
AccentedReadingItems ==
  { [ent |-> <<"ta", "be", "ru">>, i |-> None, romaji |-> None, a |-> AccentNumber(2)],
    [ent |-> <<"ta", "be", "ru">>, i |-> None, romaji |-> None, a |-> NoAccent],
    [ent |-> <<"BE", "ru">>, i |-> Some(<<"sk">>), romaji |-> None, a |-> AccentNumber(1)],
    [ent |-> <<"ta", "ya", "ru">>, i |-> Some(<<"ik">>), romaji |-> None,
     a |-> AccentArray(<< [i |-> 2], [i |-> 0], [i |-> 3] >>)],
    [ent |-> <<"ru">>, i |-> None, romaji |-> None, a |-> AccentArray(<<>>)] }

\* words that differ in the accents of their readings
WordsByAccent ==
  { Word(None, r, <<SenseEat>>, None, None) :
      r \in Lists(AccentedReadingItems, 0, MaxReadings) }

\* words with nothing but what the type requires
WordsWithoutOptionalData ==
  { Word(k, <<>>, <<>>, reasonChains, None) :
      k \in {None, Some(<<>>)}, reasonChains \in {None, Some(<<>>)} }

Kanji(on, kun, m, misc) ==
  [type |-> "kanji",
   data |-> [c |-> <<"shoku">>, r |-> [on |-> on, kun |-> kun], m |-> m, misc |-> misc]]

KanjiEntries ==
  { Kanji(on, kun, m, misc) :
      on \in {None, Some(<<>>), Some(<< <<"BE">>, <<"ta">> >>)},
      kun \in {None, Some(<< <<"ta", "be", "ru">> >>)},
      m \in {<<>>, << <<"eat">> >>, << <<"eat">>, <<"food">> >>},
      misc \in {None, Some([sc |-> 0]), Some([sc |-> 9])} }

Name(k, r, tr) == [type |-> "name", data |-> [k |-> k, r |-> r, tr |-> tr]]

NameEntries ==
  { Name(k, r, tr) :
      k \in {None} \cup {Some(l) : l \in Lists({<<"shoku">>, <<"shoku", "ta">>}, 0, MaxHeadwords)},
      r \in Lists({<<"ta">>, <<"BE", "ta">>}, 0, MaxReadings),
      tr \in { <<>>,
               << [type |-> None, det |-> << <<"Ta">> >>] >>,
               << [type |-> Some(<< <<"surname">>, <<"place">> >>), det |-> << <<"Ta">>, <<"Tah">> >>],
                  [type |-> Some(<<>>), det |-> << <<"Beta">> >>] >> } }

Contexts ==
  { None,
    Some([url |-> Some(<<"https://example.org/">>), documentTitle |-> Some(<<"Title">>),
          sentence |-> Some(<<"shoku", "be", "ru">>)]),
    Some([url |-> Some(<<"https://example.org/">>), documentTitle |-> None,
          sentence |-> None]) }

\* the field templates of DEFAULT_ANKI_SETTINGS
DefaultFieldTemplates ==
  << [name |-> "Front", template |-> <<"{", "expression", "}">>],
     [name |-> "Back", template |-> <<"{", "reading", "}", "\n", "{", "definition", "}">>] >>

Settings(fieldTemplates, duplicateScope, checkForDuplicates) ==
  [deckName |-> "Default", modelName |-> "Basic", tags |-> <<"10ten">>,
   fieldTemplates |-> fieldTemplates, duplicateScope |-> duplicateScope,
   checkForDuplicates |-> checkForDuplicates]

DEFAULT_ANKI_SETTINGS == Settings(DefaultFieldTemplates, "collection", TRUE)

AudioOverride == Some(<< [key |-> "audio", value |-> <<"[sound:taberu.mp3]">>] >>)

\* ------------------------------------------------------------------------
\* buildAnkiNote as a process (lines 38-75)
\* ------------------------------------------------------------------------

InitNoteCall ==
  /\ HelpersIdle
  /\ ExtensionIdle
  /\ markerValues = <<>>
  /\ fields = <<>>
  /\ overrideIdx = 0
  /\ fieldIdx = 0
  /\ notePc = "start"
  /\ note = None

\* every kind of entry, the default settings
InitMarkers ==
  /\ FuriganaIdle
  /\ \/ entry \in WordsByHeadword
     \/ entry \in WordsByDetail
     \/ entry \in WordsByAccent
     \/ entry \in WordsWithoutOptionalData
     \/ entry \in KanjiEntries
     \/ entry \in NameEntries
  /\ context \in Contexts
  /\ settings = DEFAULT_ANKI_SETTINGS
  /\ markerOverrides \in {None, AudioOverride}
  /\ InitNoteCall

\* lines 44-45
BuildMarkerValues ==
  /\ notePc = "start"
  /\ markerValues' = buildMarkerValues(entry, context)
  /\ fields' = <<>>
  /\ notePc' = "run"
  /\ UNCHANGED <<entry, context, settings, markerOverrides, overrideIdx, fieldIdx, note>>
  /\ UNCHANGED <<furiganaVars, helperVars, extensionVars>>

OverridesLeft ==
  markerOverrides.defined /\ overrideIdx < Len(markerOverrides.value)

\* lines 48-52, one entry of the overrides
ApplyOverride ==
  /\ notePc = "run"
  /\ OverridesLeft
  /\ LET o == markerOverrides.value[overrideIdx + 1]
     IN markerValues' = setProperty(markerValues, o.key, o.value)
  /\ overrideIdx' = overrideIdx + 1
  /\ UNCHANGED <<entry, context, settings, markerOverrides, fields, fieldIdx, notePc, note>>
  /\ UNCHANGED <<furiganaVars, helperVars, extensionVars>>

\* lines 54-56, one field template
RenderField ==
  /\ notePc = "run"
  /\ ~OverridesLeft
  /\ fieldIdx < Len(settings.fieldTemplates)
  /\ LET f == settings.fieldTemplates[fieldIdx + 1]
     IN fields' = setProperty(fields, f.name, renderFieldTemplate(f.template, markerValues))
  /\ fieldIdx' = fieldIdx + 1
  /\ UNCHANGED <<entry, context, settings, markerOverrides, markerValues, overrideIdx,
                 notePc, note>>
  /\ UNCHANGED <<furiganaVars, helperVars, extensionVars>>

\* lines 58-74
AnkiNote(st, flds) ==
  [deckName |-> st.deckName,
   modelName |-> st.modelName,
   fields |-> flds,
   tags |-> st.tags,
   options |-> [allowDuplicate |-> ~st.checkForDuplicates,
                duplicateScope |-> st.duplicateScope,
                duplicateScopeOptions |-> [deckName |-> st.deckName,
                                           checkChildren |-> TRUE,
                                           checkAllModels |-> FALSE]]]

ReturnNote ==
  /\ notePc = "run"
  /\ ~OverridesLeft
  /\ fieldIdx >= Len(settings.fieldTemplates)
  /\ note' = Some(AnkiNote(settings, fields))
  /\ notePc' = "done"
  /\ UNCHANGED <<entry, context, settings, markerOverrides, markerValues, fields,
                 overrideIdx, fieldIdx>>
  /\ UNCHANGED <<furiganaVars, helperVars, extensionVars>>

NextNote ==
  \/ BuildMarkerValues
  \/ ApplyOverride
  \/ RenderField
  \/ ReturnNote

SpecMarkers == InitMarkers /\ [][NextNote]_vars

\* the pieces templates are made of, and the templates
TemplatePieces == {"{", "}", "-", "expression", "constructor", "nosuch"}

Templates == Lists(TemplatePieces, 0, MaxTemplateLen)

\* one entry of each kind
NoteEntries ==
  { Word(Some(<< [ent |-> <<"shoku", "be", "ru">>, i |-> None] >>),
         << [ent |-> <<"ta", "be", "ru">>, i |-> None, romaji |-> Some(<<"taberu">>),
             a |-> AccentNumber(2)] >>,
         <<SenseEat, SenseLive>>, None, Some(1200)),
    Kanji(Some(<< <<"BE">>, <<"ta">> >>), Some(<< <<"ta", "be", "ru">> >>),
          << <<"eat">>, <<"food">> >>, Some([sc |-> 9])),
    Name(Some(<< <<"shoku">> >>), << <<"ta">> >>,
         << [type |-> Some(<< <<"surname">> >>), det |-> << <<"Ta">> >>] >>) }

\* overrides: none, the audio file, a value that looks like a placeholder
\* together with a name the builders do not know
OverrideChoices ==
  { None,
    AudioOverride,
    Some(<< [key |-> "expression", value |-> <<"{", "reading", "}">>],
            [key |-> "nosuch-", value |-> <<"extra">>] >>) }

\* a card with the audio marker, twice in one field
AudioFieldTemplates ==
  << [name |-> "Front", template |-> <<"{", "expression", "}">>],
     [name |-> "Audio", template |-> <<"{", "audio", "}", " ", "{", "audio", "}">>] >>

\* one template of every shape, or the default templates under every
\* duplicate policy
InitNote ==
  /\ FuriganaIdle
  /\ entry \in NoteEntries
  /\ context \in {None, Some([url |-> Some(<<"https://example.org/">>),
                              documentTitle |-> Some(<<"Title">>),
                              sentence |-> Some(<<"shoku", "be", "ru">>)])}
  /\ \/ settings \in {Settings(<< [name |-> "Front", template |-> t] >>, "collection", TRUE) :
                        t \in Templates}
     \/ settings \in {Settings(ft, scope, check) :
                        ft \in {<<>>, DefaultFieldTemplates, AudioFieldTemplates},
                        scope \in {"collection", "deck", "deck-root"},
                        check \in BOOLEAN}
  /\ markerOverrides \in OverrideChoices
  /\ InitNoteCall

SpecNote == InitNote /\ [][NextNote]_vars

\* a note type whose first field is named __proto__ (field names are those
\* of the note type chosen in the options; the options page stores them as
\* own keys of fieldTemplates)
ProtoFieldTemplates ==
  << [name |-> "__proto__", template |-> <<"{", "expression", "}">>],
     [name |-> "Back", template |-> <<"{", "reading", "}">>] >>

\* every deck, tag list and duplicate policy, over cards of each field layout
InitFields ==
  /\ FuriganaIdle
  /\ entry \in NoteEntries
  /\ context \in Contexts
  /\ settings \in {[Settings(ft, scope, check) EXCEPT !.deckName = deck, !.tags = tags] :
                     ft \in {<<>>, DefaultFieldTemplates, AudioFieldTemplates,
                             ProtoFieldTemplates},
                     scope \in {"collection", "deck", "deck-root"},
                     check \in BOOLEAN,
                     deck \in {"Default", "Mining::Japanese"},
                     tags \in {<<>>, <<"10ten">>, <<"10ten", "mined">>}}
  /\ markerOverrides \in {None, AudioOverride}
  /\ InitNoteCall

SpecFields == InitFields /\ [][NextNote]_vars

\* ------------------------------------------------------------------------
\* The helper functions called on their own
\* ------------------------------------------------------------------------

\* the call returns what the function computes
ReturnFrom(fn, value) ==
  /\ call.fn = fn
  /\ ~returned.defined
  /\ returned' = Some(value)
  /\ UNCHANGED <<call, furiganaVars, noteVars, extensionVars>>

\* readings with and without small kana, drop positions from below zero to
\* beyond the mora count
InitPitch ==
  /\ FuriganaIdle
  /\ NoteIdle
  /\ ExtensionIdle
  /\ call \in {[fn |-> "getPitchCategory", reading |-> rd, position |-> position] :
                 rd \in Strings({"ta", "ru", "ya", "YO"}, 0, MaxPitchLen),
                 position \in (-1)..MaxPosition}
  /\ returned = None

\* lines 522-534
GetPitchCategory ==
  /\ call.fn = "getPitchCategory"
  /\ ReturnFrom("getPitchCategory", getPitchCategory(call.reading, call.position))

NextPitch == GetPitchCategory

SpecPitch == InitPitch /\ [][NextPitch]_vars

\* a second sense in another language
SenseNativeFr ==
  [g |-> << [str |-> <<"manger">>, type |-> None] >>,
   pos |-> Some(<< <<"v1">> >>), field |-> None, misc |-> None, inf |-> None,
   lang |-> Some("fr")]

\* sense lists in which senses without a language, English senses and senses
\* in other languages come in every order
InitSenses ==
  /\ FuriganaIdle
  /\ NoteIdle
  /\ ExtensionIdle
  /\ call \in {[fn |-> "serializeSensesHtml", senses |-> senses, brief |-> brief] :
                 senses \in Lists({SenseEat, SenseLive, SenseNative, SenseNativeFr},
                                  0, MaxSenses),
                 brief \in BOOLEAN}
  /\ returned = None

\* lines 574-601
SerializeSensesHtml ==
  /\ call.fn = "serializeSensesHtml"
  /\ ReturnFrom("serializeSensesHtml", serializeSensesHtml(call.senses, call.brief))

NextSenses == SerializeSensesHtml

SpecSenses == InitSenses /\ [][NextSenses]_vars

\* expressions of kanji, hiragana and katakana, readings of hiragana, the
\* empty ones included
InitRender ==
  /\ FuriganaIdle
  /\ NoteIdle
  /\ ExtensionIdle
  /\ call \in {[fn |-> fn, expression |-> e, reading |-> rd] :
                 fn \in {"buildFuriganaPlain", "buildFuriganaHtml"},
                 e \in Strings({"shoku", "ta", "BE"}, 0, MaxRenderLen),
                 rd \in Strings({"ta", "be", "ru"}, 0, MaxRenderLen)}
  /\ returned = None

\* lines 361-370
BuildFuriganaPlain ==
  /\ call.fn = "buildFuriganaPlain"
  /\ ReturnFrom("buildFuriganaPlain", buildFuriganaPlain(call.expression, call.reading))

\* lines 375-386
BuildFuriganaHtml ==
  /\ call.fn = "buildFuriganaHtml"
  /\ ReturnFrom("buildFuriganaHtml", buildFuriganaHtml(call.expression, call.reading))

NextRender ==
  \/ BuildFuriganaPlain
  \/ BuildFuriganaHtml

SpecRender == InitRender /\ [][NextRender]_vars

\* ------------------------------------------------------------------------
\* The frequency module as a process
\* ------------------------------------------------------------------------

\* rows of the list: a word with its readings in hiragana and katakana, the
\* reading alone as a word, each under two ranks
CsvRows ==
  { [word |-> word, form |-> form, rank |-> rank] :
      word \in {<<"shoku">>, <<"be">>},
      form \in {<<"be">>, <<"BE">>, <<"ta">>},
      rank \in {1, 2} }

\* the module before anything loads it
FrequencyStart ==
  /\ pairMap = None
  /\ singleMap = None
  /\ loadPromise = "undefined"
  /\ doLoadCount = 0
  /\ errorLogged = FALSE
  /\ lastReturn = "none"

\* the arguments of a lookup: undefined, empty, kanji, kana
Lookups ==
  {[fn |-> "getFrequencyRank", kanjiHeadword |-> k, kanaReading |-> rd] :
     k \in {None, Some(<<>>), Some(<<"shoku">>), Some(<<"be">>)},
     rd \in {None, Some(<<>>), Some(<<"be">>), Some(<<"BE">>), Some(<<"ta">>)}}

\* every list, one load, one lookup
InitFrequency ==
  /\ FuriganaIdle
  /\ NoteIdle
  /\ csv \in Lists(CsvRows, 0, MaxRows)
  /\ FrequencyStart
  /\ AudioIdle
  /\ AnkiIdle
  /\ ButtonIdle
  /\ callsLeft = 1
  /\ call \in Lookups
  /\ returned = None

\* a loader that starts a load whenever the indexes are not there yet
LoadFrequencyDataUnshared ==
  /\ callsLeft > 0
  /\ callsLeft' = callsLeft - 1
  /\ IF pairMap.defined
     THEN /\ lastReturn' = "resolved"
          /\ UNCHANGED <<loadPromise, doLoadCount>>
     ELSE /\ loadPromise' = "pending"
          /\ doLoadCount' = doLoadCount + 1
          /\ lastReturn' = "loadPromise"
  /\ UNCHANGED <<csv, pairMap, singleMap, errorLogged, helperVars, furiganaVars,
                 noteVars, audioVars, ankiVars, buttonVars>>

\* lines 51-61
LoadFrequencyData ==
  /\ callsLeft > 0
  /\ callsLeft' = callsLeft - 1
  /\ IF pairMap.defined
     THEN /\ lastReturn' = "resolved"
          /\ UNCHANGED <<loadPromise, doLoadCount>>
     ELSE IF loadPromise = "undefined"
          \* doLoad starts and runs to its first await, the fetch under way
          THEN /\ loadPromise' = "pending"
               /\ doLoadCount' = doLoadCount + 1
               /\ lastReturn' = "loadPromise"
          ELSE /\ lastReturn' = "loadPromise"
               /\ UNCHANGED <<loadPromise, doLoadCount>>
  /\ UNCHANGED <<csv, pairMap, singleMap, errorLogged, helperVars, furiganaVars,
                 noteVars, audioVars, ankiVars, buttonVars>>

\* lines 114-169: the file arrived, the indexes are built and published
DoLoadIndexes ==
  /\ loadPromise = "pending"
  /\ LET built == buildIndexes(csv, 1, EmptyMap, EmptyMap)
     IN /\ pairMap' = Some(built.pairs)
        /\ singleMap' = Some(built.singles)
  /\ loadPromise' = "fulfilled"
  /\ UNCHANGED <<csv, doLoadCount, errorLogged, callsLeft, lastReturn, helperVars,
                 furiganaVars,
                 noteVars, audioVars, ankiVars, buttonVars>>

\* a failure that publishes no indexes
DoLoadFailedUnpublished ==
  /\ loadPromise = "pending"
  /\ errorLogged' = TRUE
  /\ loadPromise' = "undefined"
  /\ UNCHANGED <<csv, pairMap, singleMap, doLoadCount, callsLeft, lastReturn, helperVars,
                 furiganaVars,
                 noteVars, audioVars, ankiVars, buttonVars>>

\* lines 170-175: fetching or reading the file failed
DoLoadFailed ==
  /\ loadPromise = "pending"
  /\ errorLogged' = TRUE
  /\ pairMap' = Some(EmptyMap)
  /\ singleMap' = Some(EmptyMap)
  /\ loadPromise' = "fulfilled"
  /\ UNCHANGED <<csv, doLoadCount, callsLeft, lastReturn, helperVars, furiganaVars,
                 noteVars, audioVars, ankiVars, buttonVars>>

\* lines 76-104
GetFrequencyRank ==
  /\ call.fn = "getFrequencyRank"
  /\ ~returned.defined
  /\ returned' = Some(getFrequencyRank(pairMap, singleMap, call.kanjiHeadword,
                                       call.kanaReading))
  /\ UNCHANGED <<call, frequencyVars, furiganaVars,
                 noteVars, audioVars, ankiVars, buttonVars>>

NextFrequency ==
  \/ LoadFrequencyData
  \/ DoLoadIndexes
  \/ DoLoadFailed
  \/ GetFrequencyRank

SpecFrequency == InitFrequency /\ [][NextFrequency]_vars

\* a few lists, several loads, one lookup
InitLoad ==
  /\ FuriganaIdle
  /\ NoteIdle
  /\ csv \in { <<>>,
               << [word |-> <<"shoku">>, form |-> <<"BE">>, rank |-> 2] >>,
               << [word |-> <<"shoku">>, form |-> <<"ta">>, rank |-> 1],
                  [word |-> <<"be">>, form |-> <<"be">>, rank |-> 2] >> }
  /\ FrequencyStart
  /\ AudioIdle
  /\ AnkiIdle
  /\ ButtonIdle
  /\ callsLeft = MaxLoadCalls
  /\ call \in Lookups
  /\ returned = None

SpecLoad == InitLoad /\ [][NextFrequency]_vars

\* ------------------------------------------------------------------------
\* fetchAndStoreAudio (background/audio-fetcher.ts)
\* ------------------------------------------------------------------------

DEFAULT_AUDIO_SOURCES == <<"jpod101", "jisho">>

\* String.prototype.slice(0, 80) of buildAudioResult
SafeExprLength == 80

\* characters the pattern /[^a-z0-9_-]/gi leaves alone
SafeChars == {"a", "Z", "7", "_", "-"}

\* expression.replace(/[^a-z0-9_-]/gi, '_').slice(0, 80)
safeExpr(expr) ==
  LET replaced == [k \in 1..Len(expr) |->
                     IF expr[k] \in SafeChars THEN expr[k] ELSE "_"]
  IN  SubSeq(replaced, 1, IF Len(replaced) < SafeExprLength
                          THEN Len(replaced) ELSE SafeExprLength)

\* the file name of buildAudioResult; timestamp is the clock's reading
audioFilename(expr, timestamp) ==
  <<"10ten_audio_">> \o safeExpr(expr) \o <<"_", timestamp, ".mp3">>

\* the clock's readings, with ':' and '.' replaced by '-'
Timestamps == {"2026-01-01T00-00-00-000Z", "2026-01-01T00-00-01-000Z"}

\* the ways a source resolves to null: fetchFromJapanesePod101 on a response
\* that is not ok or on the placeholder clip, fetchFromJisho on a search
\* response that is not ok, a page without an mp3 address, or an mp3 response
\* that is not ok
NoAudioReasons(source) ==
  IF source = "jpod101"
  THEN {"notOk", "placeholder"}
  ELSE {"notOk", "noMp3", "mp3NotOk"}

\* the ways storeMediaFile throws: the client is disabled, the version check
\* fails, the request fails, the result is neither null nor a string
StoreErrors == {"notEnabled", "checkFailed", "requestFailed", "unexpectedResult"}

\* an entry of the record of a call
AudioEvent(source, event, detail) ==
  [source |-> source, event |-> event, detail |-> detail]

\* the end of one turn of the loop: the next source is asked, or, after the
\* last one, the call resolves to null
MoveOn(log) ==
  IF sourceIdx < Len(DEFAULT_AUDIO_SOURCES)
  THEN /\ sourceIdx' = sourceIdx + 1
       /\ audioPc' = "fetching"
       /\ audioLog' =
            Append(log, AudioEvent(DEFAULT_AUDIO_SOURCES[sourceIdx + 1], "fetch", <<>>))
       /\ UNCHANGED audioReturned
  ELSE /\ audioPc' = "done"
       /\ audioLog' = log
       /\ audioReturned' = Some(None)
       /\ UNCHANGED sourceIdx

AudioFrame == UNCHANGED <<audioCall, furiganaVars, noteVars, helperVars, frequencyVars,
                          ankiVars, buttonVars>>

\* the call: the loop starts with the first source
FetchAndStoreAudio ==
  /\ audioCall.fn = "fetchAndStoreAudio"
  /\ audioPc = "idle"
  /\ audioPc' = "fetching"
  /\ sourceIdx' = 1
  /\ audioLog' = <<AudioEvent(DEFAULT_AUDIO_SOURCES[1], "fetch", <<>>)>>
  /\ UNCHANGED audioReturned
  /\ AudioFrame

\* fetchAudioFromSource resolves to null: continue
SourceYieldsNothing ==
  /\ audioPc = "fetching"
  /\ \E why \in NoAudioReasons(DEFAULT_AUDIO_SOURCES[sourceIdx]) :
       MoveOn(Append(audioLog,
                     AudioEvent(DEFAULT_AUDIO_SOURCES[sourceIdx], "nothing", <<why>>)))
  /\ AudioFrame

\* fetchAudioFromSource rejects (fetch fails): caught, a warning, the next turn
SourceThrows ==
  /\ audioPc = "fetching"
  /\ MoveOn(Append(audioLog,
                   AudioEvent(DEFAULT_AUDIO_SOURCES[sourceIdx], "threw", <<>>)))
  /\ AudioFrame

\* fetchAudioFromSource resolves to an AudioResult: storeMediaFile is called
SourceYieldsAudio ==
  /\ audioPc = "fetching"
  /\ \E timestamp \in Timestamps :
       audioLog' =
         Append(audioLog,
                AudioEvent(DEFAULT_AUDIO_SOURCES[sourceIdx], "store",
                           audioFilename(audioCall.expression, timestamp)))
  /\ audioPc' = "storing"
  /\ UNCHANGED <<sourceIdx, audioReturned>>
  /\ AudioFrame

\* the names Anki may answer with: the name it was given, or one of its own
StoredNames(asked) == {asked, <<"renamed.mp3">>}

\* storeMediaFile resolves to a name that is not empty: it is returned
StoreReturnsName ==
  /\ audioPc = "storing"
  /\ \E storedName \in StoredNames(audioLog[Len(audioLog)].detail) :
       /\ audioLog' =
            Append(audioLog,
                   AudioEvent(DEFAULT_AUDIO_SOURCES[sourceIdx], "stored", storedName))
       /\ audioReturned' = Some(Some(storedName))
  /\ audioPc' = "done"
  /\ UNCHANGED sourceIdx
  /\ AudioFrame

\* storeMediaFile resolves to null or to the empty string: the next turn
StoreReturnsEmpty ==
  /\ audioPc = "storing"
  /\ \E empty \in {"null", "emptyString"} :
       MoveOn(Append(audioLog,
                     AudioEvent(DEFAULT_AUDIO_SOURCES[sourceIdx], "storedNothing",
                                <<empty>>)))
  /\ AudioFrame

\* the same step without the catch clause: the call rejects
StoreThrowsUncaught ==
  /\ audioPc = "storing"
  /\ \E error \in StoreErrors :
       audioLog' =
         Append(audioLog,
                AudioEvent(DEFAULT_AUDIO_SOURCES[sourceIdx], "storeThrew", <<error>>))
  /\ audioPc' = "done"
  /\ audioReturned' = Some([defined |-> TRUE, rejected |-> TRUE])
  /\ UNCHANGED sourceIdx
  /\ AudioFrame

\* storeMediaFile rejects: caught, a warning, the next turn
StoreThrows ==
  /\ audioPc = "storing"
  /\ \E error \in StoreErrors :
       MoveOn(Append(audioLog,
                     AudioEvent(DEFAULT_AUDIO_SOURCES[sourceIdx], "storeThrew", <<error>>)))
  /\ AudioFrame

NextAudio ==
  \/ FetchAndStoreAudio
  \/ SourceYieldsNothing
  \/ SourceThrows
  \/ SourceYieldsAudio
  \/ StoreReturnsName
  \/ StoreReturnsEmpty
  \/ StoreThrows

\* the expressions asked for: kanji and kana, one with characters that stay
AudioExpressions == {<<"shoku", "be", "ru">>, <<"a", "-", "be">>, <<>>}

AudioCalls ==
  {[fn |-> "fetchAndStoreAudio", expression |-> e, reading |-> rd] :
     e \in AudioExpressions, rd \in {None, Some(<<"ta", "be", "ru">>)}}

InitAudio ==
  /\ FuriganaIdle
  /\ NoteIdle
  /\ HelpersIdle
  /\ FrequencyIdle
  /\ AnkiIdle
  /\ ButtonIdle
  /\ audioCall \in AudioCalls
  /\ audioPc = "idle"
  /\ sourceIdx = 0
  /\ audioLog = <<>>
  /\ audioReturned = None

SpecAudio == InitAudio /\ [][NextAudio]_vars

\* ------------------------------------------------------------------------
\* AnkiConnect (background/anki-connect.ts)
\* ------------------------------------------------------------------------

\* how many operations are called
MaxAnkiOps == 3

\* how many times a setter is called
MaxSetterCalls == 1

\* how many notes canAddNotes and canAddNotesWithErrorDetail are given
MaxNotes == 2

\* AnkiConnect._localVersion
LocalVersion == 2

\* the public operations and the action each one passes to _invoke
ActionOf ==
  [getVersion |-> "version",
   addNote |-> "addNote",
   updateNoteFields |-> "updateNoteFields",
   canAddNotes |-> "canAddNotes",
   canAddNotesWithErrorDetail |-> "canAddNotesWithErrorDetail",
   notesInfo |-> "notesInfo",
   cardsInfo |-> "cardsInfo",
   getDeckNames |-> "deckNames",
   getModelNames |-> "modelNames",
   getModelFieldNames |-> "modelFieldNames",
   guiBrowse |-> "guiBrowse",
   storeMediaFile |-> "storeMediaFile",
   findNotes |-> "findNotes",
   suspendCards |-> "suspend",
   findCards |-> "findCards",
   sync |-> "sync",
   isConnected |-> "version"]

Operations == DOMAIN ActionOf

\* values an operation resolves to
Null == [type |-> "null"]

Boolean(b) == [type |-> "boolean", value |-> b]

Number(n) == [type |-> "number", value |-> n]

List(items) == [type |-> "list", items |-> items]

FromServer == [type |-> "fromServer"]

\* what an operation rejects with
Error(message) == [type |-> "error", message |-> message]

\* an empty list for every operation
DisabledResultEmptyList(kind, notes) == List(<<>>)

\* what each operation returns when the client is not enabled
DisabledResult(kind, notes) ==
  IF kind \in {"getVersion", "addNote", "updateNoteFields"}
  THEN Null
  ELSE IF kind = "canAddNotes"
  THEN List([k \in 1..notes |-> Boolean(FALSE)])
  ELSE IF kind = "canAddNotesWithErrorDetail"
  THEN List([k \in 1..notes |-> [canAdd |-> Boolean(FALSE), error |-> Null]])
  ELSE IF kind \in {"suspendCards", "sync"}
  THEN Boolean(FALSE)
  ELSE List(<<>>)

\* how many notes a call passes
NoteCounts(kind) ==
  IF kind \in {"canAddNotes", "canAddNotesWithErrorDetail"} THEN 0..MaxNotes ELSE {0}

\* the addresses the server is set to
Servers == {"http://127.0.0.1:8765", "http://127.0.0.1:8766"}

\* the values the API key is set to
ApiKeyValues == {None, Some(""), Some("secret")}

\* what the server may put in the result of a version request: numbers below,
\* at and above the local version, and something that is not a number
RawVersions == {Number(1), Number(2), Number(6), [type |-> "string"]}

\* _getVersion: the result when it is a number, 0 otherwise
getVersionOf(raw) == IF raw.type = "number" THEN raw.value ELSE 0

\* the outcome of a promise of _getVersion
Fulfilled(value) == [ok |-> TRUE, value |-> value]

Rejected == [ok |-> FALSE, value |-> 0]

\* the request _invoke builds now; without a server address it throws before
\* fetch is called
NewRequest(by, owner, action) ==
  [by |-> by, owner |-> owner, action |-> action,
   sent |-> ankiServer # NoServer,
   server |-> ankiServer,
   key |-> IF ankiApiKey # None /\ ankiApiKey # Some("") THEN ankiApiKey ELSE None]

\* _invoke up to its first await
Invoke(r) ==
  /\ requests' = requests \cup {r}
  /\ sentActions' =
       IF r.sent
       THEN sentActions \cup {[action |-> r.action, by |-> r.by, owner |-> r.owner]}
       ELSE sentActions

\* an operation as it stands: what was called, where it is, what it settled
\* with, the promise of _checkVersion it awaited (0: none) and how that await
\* ended, and the flag and the address at the time of the call
Operation(kind, notes, state, settledWith, check) ==
  [kind |-> kind, notes |-> notes, state |-> state, result |-> settledWith,
   check |-> check, checked |-> IF check = 0 THEN "none" ELSE "waiting",
   enabled |-> ankiEnabled, server |-> ankiServer]

\* the reactions of the microtask queue
CatchJob == [job |-> "catch", op |-> 0, outcome |-> Rejected]

FinallyJob == [job |-> "finally", op |-> 0, outcome |-> Rejected]

AwaitJob(o, outcome) == [job |-> "await", op |-> o, outcome |-> outcome]

AnkiFrame ==
  UNCHANGED <<ankiPlan, furiganaVars, noteVars, helperVars, frequencyVars, audioVars,
              buttonVars>>

settingVars == <<ankiEnabled, ankiServer, ankiApiKey, settersLeft>>

\* the state an operation is in after its request went out
Awaiting(kind) == IF ActionOf[kind] = "version" THEN "awaitingVersion" ELSE "awaitingResponse"

\* this._versionCheckPromise === null, and a test that always says so
SlotAlwaysEmpty == TRUE

SlotEmpty == versionCheckPromise.state = "null"

\* a public operation is called: isConnected asks for the version; a disabled
\* client answers at once; an enabled one runs _checkVersion, which returns
\* when the remote version is known to be compatible, creates the promise of
\* the check when there is none, and awaits the promise
StartOperationUnchecked ==
  /\ Len(ankiOps) < ankiPlan.limit
  /\ \E kind \in ankiPlan.kinds : \E notes \in NoteCounts(kind) :
       LET o == Len(ankiOps) + 1
       IN IF kind = "isConnected"
          THEN /\ ankiOps' = Append(ankiOps, Operation(kind, notes, Awaiting(kind), None, 0))
               /\ Invoke(NewRequest("isConnected", o, "version"))
          ELSE IF ~ankiEnabled /\ kind = "storeMediaFile"
          THEN /\ ankiOps' = Append(ankiOps, Operation(kind, notes, "rejected",
                                                       Some(Error("notEnabled")), 0))
               /\ UNCHANGED <<requests, sentActions>>
          ELSE IF ~ankiEnabled
          THEN /\ ankiOps' = Append(ankiOps, Operation(kind, notes, "resolved",
                                                       Some(DisabledResult(kind, notes)), 0))
               /\ UNCHANGED <<requests, sentActions>>
          ELSE /\ ankiOps' = Append(ankiOps, Operation(kind, notes, Awaiting(kind), None, 0))
               /\ Invoke(NewRequest("operation", o, ActionOf[kind]))
  /\ UNCHANGED <<versionCheckPromise, checkWaiters, microtasks, checksIssued>>
  /\ UNCHANGED <<settingVars, remoteVersion, versionsReturned>>
  /\ AnkiFrame

StartOperation ==
  /\ Len(ankiOps) < ankiPlan.limit
  /\ \E kind \in ankiPlan.kinds : \E notes \in NoteCounts(kind) :
       LET o == Len(ankiOps) + 1
       IN IF kind = "isConnected"
          THEN /\ ankiOps' = Append(ankiOps, Operation(kind, notes, Awaiting(kind), None, 0))
               /\ Invoke(NewRequest("isConnected", o, "version"))
               /\ UNCHANGED <<versionCheckPromise, checkWaiters, microtasks, checksIssued>>
          ELSE IF ~ankiEnabled /\ kind = "storeMediaFile"
          THEN /\ ankiOps' = Append(ankiOps, Operation(kind, notes, "rejected",
                                                       Some(Error("notEnabled")), 0))
               /\ UNCHANGED <<requests, sentActions, versionCheckPromise, checkWaiters,
                              microtasks, checksIssued>>
          ELSE IF ~ankiEnabled
          THEN /\ ankiOps' = Append(ankiOps, Operation(kind, notes, "resolved",
                                                       Some(DisabledResult(kind, notes)), 0))
               /\ UNCHANGED <<requests, sentActions, versionCheckPromise, checkWaiters,
                              microtasks, checksIssued>>
          ELSE IF remoteVersion >= LocalVersion
          THEN /\ ankiOps' = Append(ankiOps, Operation(kind, notes, Awaiting(kind), None, 0))
               /\ Invoke(NewRequest("operation", o, ActionOf[kind]))
               /\ UNCHANGED <<versionCheckPromise, checkWaiters, microtasks, checksIssued>>
          ELSE IF SlotEmpty
          THEN /\ checksIssued' = checksIssued + 1
               /\ versionCheckPromise' = [state |-> "pending", id |-> checksIssued + 1]
               /\ checkWaiters' = <<o>>
               /\ Invoke(NewRequest("check", checksIssued + 1, "version"))
               /\ ankiOps' = Append(ankiOps, Operation(kind, notes, "awaitingCheck", None,
                                                       checksIssued + 1))
               /\ UNCHANGED microtasks
          ELSE IF versionCheckPromise.state = "pending"
          THEN /\ checkWaiters' = Append(checkWaiters, o)
               /\ ankiOps' = Append(ankiOps, Operation(kind, notes, "awaitingCheck", None,
                                                       versionCheckPromise.id))
               /\ UNCHANGED <<requests, sentActions, versionCheckPromise, microtasks,
                              checksIssued>>
          ELSE /\ microtasks' = Append(microtasks, AwaitJob(o, versionCheckPromise.outcome))
               /\ ankiOps' = Append(ankiOps, Operation(kind, notes, "awaitingCheck", None,
                                                       versionCheckPromise.id))
               /\ UNCHANGED <<requests, sentActions, versionCheckPromise, checkWaiters,
                              checksIssued>>
  /\ UNCHANGED <<settingVars, remoteVersion, versionsReturned>>
  /\ AnkiFrame

\* the promise of the check settles: the reaction of catch, then the
\* operations awaiting it, in the order they began to
Settle(outcome) ==
  /\ versionCheckPromise' =
       [state |-> "settled", id |-> versionCheckPromise.id, outcome |-> outcome]
  /\ microtasks' = microtasks \o <<CatchJob>>
                   \o [k \in 1..Len(checkWaiters) |-> AwaitJob(checkWaiters[k], outcome)]
  /\ checkWaiters' = <<>>

Settled(o, state, value) ==
  [ankiOps EXCEPT ![o].state = state, ![o].result = Some(value)]

\* await this._checkVersion() throws
Threw(o, message) ==
  [ankiOps EXCEPT ![o].state = "rejected", ![o].result = Some(Error(message)),
                  ![o].checked = "threw"]

\* await this._checkVersion() returns
Passed(o) ==
  [ankiOps EXCEPT ![o].state = Awaiting(ankiOps[o].kind), ![o].checked = "passed"]

\* a version request is answered
VersionResponse ==
  /\ microtasks = <<>>
  /\ \E r \in requests : \E raw \in RawVersions :
       /\ r.action = "version"
       /\ r.sent
       /\ requests' = requests \ {r}
       /\ versionsReturned' =
            versionsReturned \cup {[by |-> r.by, owner |-> r.owner,
                                    value |-> getVersionOf(raw)]}
       /\ IF r.by = "check"
          THEN /\ Settle(Fulfilled(getVersionOf(raw)))
               /\ UNCHANGED ankiOps
          ELSE /\ ankiOps' = Settled(r.owner, "resolved",
                                     IF r.by = "isConnected"
                                     THEN Boolean(TRUE)
                                     ELSE Number(getVersionOf(raw)))
               /\ UNCHANGED <<versionCheckPromise, microtasks, checkWaiters>>
  /\ UNCHANGED <<settingVars, remoteVersion, sentActions, checksIssued>>
  /\ AnkiFrame

\* _invoke throws: no server address, a failed fetch, a response that is not
\* ok or not JSON, an error reported by Anki
RequestFails ==
  /\ microtasks = <<>>
  /\ \E r \in requests :
       /\ requests' = requests \ {r}
       /\ IF r.by = "check"
          THEN /\ Settle(Rejected)
               /\ UNCHANGED ankiOps
          ELSE /\ ankiOps' = IF r.by = "isConnected"
                             THEN Settled(r.owner, "resolved", Boolean(FALSE))
                             ELSE Settled(r.owner, "rejected", Error("connection"))
               /\ UNCHANGED <<versionCheckPromise, microtasks, checkWaiters>>
  /\ UNCHANGED <<settingVars, remoteVersion, sentActions, versionsReturned, checksIssued>>
  /\ AnkiFrame

\* a request other than version is answered: the result is normalised and
\* returned, or is not of the expected type
ActionResponse ==
  /\ microtasks = <<>>
  /\ \E r \in requests : \E expected \in BOOLEAN :
       /\ r.action # "version"
       /\ r.sent
       /\ requests' = requests \ {r}
       /\ ankiOps' = IF expected
                     THEN Settled(r.owner, "resolved", FromServer)
                     ELSE Settled(r.owner, "rejected", Error("unexpectedResult"))
  /\ UNCHANGED <<settingVars, remoteVersion, versionCheckPromise, checkWaiters, microtasks,
                 sentActions, versionsReturned, checksIssued>>
  /\ AnkiFrame

\* the first reaction of the queue runs: catch passes the outcome on and
\* queues finally; finally empties the slot; an operation takes the outcome
\* of the promise it awaited, records the version, and throws or goes on to
\* its request
RunMicrotaskKeepingSlot ==
  /\ microtasks # <<>>
  /\ LET job == Head(microtasks)
         o == job.op
     IN IF job.job = "catch"
        THEN /\ microtasks' = Append(Tail(microtasks), FinallyJob)
             /\ UNCHANGED <<versionCheckPromise, remoteVersion, ankiOps, requests,
                            sentActions>>
        ELSE IF job.job = "finally"
        THEN /\ microtasks' = Tail(microtasks)
             /\ UNCHANGED <<versionCheckPromise, remoteVersion, ankiOps, requests,
                            sentActions>>
        ELSE /\ microtasks' = Tail(microtasks)
             /\ UNCHANGED versionCheckPromise
             /\ IF ~job.outcome.ok
                THEN /\ ankiOps' = Threw(o, "connection")
                     /\ UNCHANGED <<remoteVersion, requests, sentActions>>
                ELSE /\ remoteVersion' = job.outcome.value
                     /\ IF job.outcome.value < LocalVersion
                        THEN /\ ankiOps' = Threw(o, "incompatible")
                             /\ UNCHANGED <<requests, sentActions>>
                        ELSE /\ ankiOps' = Passed(o)
                             /\ Invoke(NewRequest("operation", o, ActionOf[ankiOps[o].kind]))
  /\ UNCHANGED <<settingVars, checkWaiters, versionsReturned, checksIssued>>
  /\ AnkiFrame

RunMicrotask ==
  /\ microtasks # <<>>
  /\ LET job == Head(microtasks)
         o == job.op
     IN IF job.job = "catch"
        THEN /\ microtasks' = Append(Tail(microtasks), FinallyJob)
             /\ UNCHANGED <<versionCheckPromise, remoteVersion, ankiOps, requests,
                            sentActions>>
        ELSE IF job.job = "finally"
        THEN /\ microtasks' = Tail(microtasks)
             /\ versionCheckPromise' = NoPromise
             /\ UNCHANGED <<remoteVersion, ankiOps, requests, sentActions>>
        ELSE /\ microtasks' = Tail(microtasks)
             /\ UNCHANGED versionCheckPromise
             /\ IF ~job.outcome.ok
                THEN /\ ankiOps' = Threw(o, "connection")
                     /\ UNCHANGED <<remoteVersion, requests, sentActions>>
                ELSE /\ remoteVersion' = job.outcome.value
                     /\ IF job.outcome.value < LocalVersion
                        THEN /\ ankiOps' = Threw(o, "incompatible")
                             /\ UNCHANGED <<requests, sentActions>>
                        ELSE /\ ankiOps' = Passed(o)
                             /\ Invoke(NewRequest("operation", o, ActionOf[ankiOps[o].kind]))
  /\ UNCHANGED <<settingVars, checkWaiters, versionsReturned, checksIssued>>
  /\ AnkiFrame

SetterFrame ==
  /\ UNCHANGED <<remoteVersion, versionCheckPromise, checkWaiters, microtasks, requests,
                 sentActions, versionsReturned, ankiOps, checksIssued>>
  /\ AnkiFrame

\* set enabled
SetEnabled ==
  /\ settersLeft > 0
  /\ settersLeft' = settersLeft - 1
  /\ ankiEnabled' \in BOOLEAN
  /\ UNCHANGED <<ankiServer, ankiApiKey>>
  /\ SetterFrame

\* set server
SetServer ==
  /\ settersLeft > 0
  /\ settersLeft' = settersLeft - 1
  /\ ankiServer' \in Servers
  /\ UNCHANGED <<ankiEnabled, ankiApiKey>>
  /\ SetterFrame

\* set apiKey
SetApiKey ==
  /\ settersLeft > 0
  /\ settersLeft' = settersLeft - 1
  /\ ankiApiKey' \in ApiKeyValues
  /\ UNCHANGED <<ankiEnabled, ankiServer>>
  /\ SetterFrame

NextAnki ==
  \/ StartOperation
  \/ VersionResponse
  \/ RequestFails
  \/ ActionResponse
  \/ RunMicrotask
  \/ SetEnabled
  \/ SetServer
  \/ SetApiKey

\* the operations that show every path of the version check
CheckedOperations == {"addNote", "getVersion", "storeMediaFile", "isConnected"}

\* the client after construction and after the setters its owner calls when
\* the settings are read; nothing has been asked of it yet
AnkiStart ==
  /\ FuriganaIdle
  /\ NoteIdle
  /\ HelpersIdle
  /\ FrequencyIdle
  /\ AudioIdle
  /\ ButtonIdle
  /\ ankiEnabled \in BOOLEAN
  /\ ankiServer \in {NoServer, "http://127.0.0.1:8765"}
  /\ ankiApiKey = None
  /\ remoteVersion = 0
  /\ versionCheckPromise = NoPromise
  /\ checkWaiters = <<>>
  /\ microtasks = <<>>
  /\ requests = {}
  /\ sentActions = {}
  /\ versionsReturned = {}
  /\ ankiOps = <<>>
  /\ checksIssued = 0
  /\ settersLeft = MaxSetterCalls

InitAnki ==
  /\ AnkiStart
  /\ ankiPlan = [kinds |-> CheckedOperations, limit |-> MaxAnkiOps]

SpecAnki == InitAnki /\ [][NextAnki]_vars

\* how many operations are called when every operation may be
MaxCalls == 2

InitAllOperations ==
  /\ AnkiStart
  /\ ankiPlan = [kinds |-> Operations, limit |-> MaxCalls]

SpecAllOperations == InitAllOperations /\ [][NextAnki]_vars

\* ------------------------------------------------------------------------
\* AnkiButton (content/popup/CopyOverlay/AnkiButton.tsx)
\* ------------------------------------------------------------------------

\* how many times the user clicks
MaxClicks == 3

\* the disabled attribute of the rendered button
ButtonDisabled == buttonState = "adding" \/ buttonState = "added"

ButtonFrame ==
  UNCHANGED <<buttonProps, furiganaVars, noteVars, helperVars, frequencyVars,
              audioVars, ankiVars>>

\* setTimeout(() => setState('idle'), delay)
setTimeout(delay) == [resetTimers EXCEPT ![delay] = @ + 1]

\* a click on the button: a disabled button dispatches none, the handler
\* returns early without a note, without a callback, and while adding or
\* added; otherwise it sets the state and calls onAddToAnki
HandleClick ==
  /\ buttonProps.note
  /\ clicksLeft > 0
  /\ clicksLeft' = clicksLeft - 1
  /\ IF \/ ButtonDisabled
        \/ ~buttonProps.onAddToAnki
        \/ buttonState = "adding"
        \/ buttonState = "added"
     THEN /\ lastClick' = [did |-> "ignored", state |-> buttonState]
          /\ UNCHANGED <<buttonState, errorMsg, pendingCalls>>
     ELSE /\ lastClick' = [did |-> "started", state |-> buttonState]
          /\ buttonState' = "adding"
          /\ errorMsg' = None
          /\ pendingCalls' = pendingCalls + 1
  /\ UNCHANGED resetTimers
  /\ ButtonFrame

\* the call resolves with success: added, and a reset after two seconds
CallSucceeds ==
  /\ pendingCalls > 0
  /\ pendingCalls' = pendingCalls - 1
  /\ buttonState' = "added"
  /\ resetTimers' = setTimeout(AddedResetDelay)
  /\ UNCHANGED <<errorMsg, clicksLeft, lastClick>>
  /\ ButtonFrame

\* the call resolves without success: error, and a reset after three seconds
CallFails ==
  /\ pendingCalls > 0
  /\ pendingCalls' = pendingCalls - 1
  /\ buttonState' = "error"
  /\ \E text \in {"Unknown error", "duplicate"} : errorMsg' = Some(text)
  /\ resetTimers' = setTimeout(ErrorResetDelay)
  /\ UNCHANGED <<clicksLeft, lastClick>>
  /\ ButtonFrame

\* the call rejects: error, and a reset after three seconds
CallThrows ==
  /\ pendingCalls > 0
  /\ pendingCalls' = pendingCalls - 1
  /\ buttonState' = "error"
  /\ errorMsg' = Some("thrown")
  /\ resetTimers' = setTimeout(ErrorResetDelay)
  /\ UNCHANGED <<clicksLeft, lastClick>>
  /\ ButtonFrame

\* a timer runs out: the state is set to idle, whatever it is
ResetToIdle ==
  /\ \E delay \in ResetDelays :
       /\ resetTimers[delay] > 0
       /\ resetTimers' = [resetTimers EXCEPT ![delay] = @ - 1]
  /\ buttonState' = "idle"
  /\ UNCHANGED <<errorMsg, pendingCalls, clicksLeft, lastClick>>
  /\ ButtonFrame

NextButton ==
  \/ HandleClick
  \/ CallSucceeds
  \/ CallFails
  \/ CallThrows
  \/ ResetToIdle

InitButton ==
  /\ FuriganaIdle
  /\ NoteIdle
  /\ HelpersIdle
  /\ FrequencyIdle
  /\ AudioIdle
  /\ AnkiIdle
  /\ buttonProps \in [note : BOOLEAN, onAddToAnki : BOOLEAN]
  /\ buttonState = "idle"
  /\ errorMsg = None
  /\ pendingCalls = 0
  /\ resetTimers = [d \in ResetDelays |-> 0]
  /\ clicksLeft \in 1..MaxClicks
  /\ lastClick = [did |-> "none", state |-> "idle"]

SpecButton == InitButton /\ [][NextButton]_vars

\* the process and the function return the same array
ProcessAgreesWithFunction ==
  pc = "done" => result = distributeFurigana(expression, reading)

\* ------------------------------------------------------------------------
\* Properties of distributeFurigana
\* ------------------------------------------------------------------------

\* a kana character, by its code point (U+3040..U+30FF)
IsKanaCodePoint(char) == codePointAt(char) \in 12352..12543

OnlyKana(text) == \A k \in 1..Len(text) : IsKanaCodePoint(text[k])

RECURSIVE ConcatText(_)
ConcatText(segs) ==
  IF segs = <<>> THEN <<>> ELSE Head(segs).text \o ConcatText(Tail(segs))

\* the pronunciation a segment stands for: its reading, or its own text for
\* a kana run that carries no reading
RECURSIVE ReadingWalk(_)
ReadingWalk(segs) ==
  IF segs = <<>>
  THEN <<>>
  ELSE (IF Head(segs).reading # <<>>
        THEN Head(segs).reading
        ELSE IF Head(segs).text # <<>> /\ OnlyKana(Head(segs).text)
             THEN Head(segs).text
             ELSE <<>>)
       \o ReadingWalk(Tail(segs))

\* sub occurs in s at index k (0-based)
OccursAt(s, sub, k) ==
  /\ k >= 0
  /\ k + Len(sub) <= Len(s)
  /\ \A j \in 1..Len(sub) : s[k + j] = sub[j]

\* the loop is about to handle a kana run
AtKanaRun == pc = "walk" /\ i < Len(groups) /\ groups[i + 1].isKana

\* C1: for every (expression, reading) pair, the text fields of the returned
\* segments, concatenated in order, are exactly the expression.
C1_TextConcatIsExpression ==
  pc = "done" => ConcatText(result) = expression

\* C4: for the calls that run the multi-run walk to its end (lines 436-486),
\* walking the returned segments and taking each segment's reading, or the
\* text of a kana run without reading, reproduces the reading up to
\* katakana/hiragana normalization.
C4_ReadingReproducedByWalk ==
  (pc = "done" /\ exit = "end")
    => katakanaToHiragana(ReadingWalk(result)) = katakanaToHiragana(reading)

\* C5: when the normalized text of a kana run does not occur in the
\* normalized reading at or after the cursor, the call returns at once exactly
\* one segment: the whole expression with the whole original reading.
C5_FallbackOnUnmatchedKana ==
  [][(AtKanaRun /\ ~\E k \in readingPos..Len(reading) :
                      OccursAt(readingNorm, katakanaToHiragana(groups[i + 1].text), k))
       => /\ pc' = "done"
          /\ result' = <<[text |-> expression, reading |-> reading]>>]_vars

\* a fallback taken after segments had been built, with a reading that
\* normalization would change
C5_Witness ==
  /\ pc = "done"
  /\ exit = "fallback"
  /\ Len(segments) > 0
  /\ reading # readingNorm
  /\ result = <<[text |-> expression, reading |-> reading]>>

\* C6: one segment, the expression with empty reading, whenever the reading
\* is empty, the reading equals the expression, or the expression is
\* non-empty and only kana.
C6_NoReadingCases ==
  (pc = "done" /\ (\/ reading = <<>>
                   \/ reading = expression
                   \/ (expression # <<>> /\ OnlyKana(expression))))
    => result = <<[text |-> expression, reading |-> <<>>]>>

\* an all-kana expression with katakana in it and an unrelated reading
C6_Witness ==
  /\ pc = "done"
  /\ Len(expression) = 2
  /\ OnlyKana(expression)
  /\ \E k \in 1..Len(expression) : codePointAt(expression[k]) >= 12448
  /\ reading # <<>>
  /\ katakanaToHiragana(reading) # katakanaToHiragana(expression)
  /\ result = <<[text |-> expression, reading |-> <<>>]>>

\* C7: a kana run is matched at the leftmost occurrence of its normalized
\* text in the normalized reading at or after the cursor; the reading between
\* the cursor and the match becomes the reading of the preceding kanji-like
\* segment when there is one; the kana run is emitted with empty reading; the
\* cursor moves to the end of the match and never moves backward.  And
\* distribute(shoku be ru, ta be ru) = [(shoku, ta), (be ru, empty)].
C7_GreedyLeftmostMatch ==
  [][/\ readingPos' >= readingPos
     /\ (AtKanaRun /\ \E k \in readingPos..Len(reading) :
                         OccursAt(readingNorm, katakanaToHiragana(groups[i + 1].text), k))
          => LET kana == groups[i + 1].text
                 at == {k \in readingPos..Len(reading) :
                          OccursAt(readingNorm, katakanaToHiragana(kana), k)}
                 m == CHOOSE k \in at : \A j \in at : k <= j
                 n == Len(segments)
             IN /\ pc' = "walk"
                /\ readingPos' = m + Len(kana)
                /\ segments'[Len(segments')] = [text |-> kana, reading |-> <<>>]
                /\ (n > 0 /\ m > readingPos)
                     => /\ Len(segments') = n + 1
                        /\ ~OnlyKana(segments[n].text)
                        /\ segments'[n] = [text |-> segments[n].text,
                                           reading |-> SubSeq(reading, readingPos + 1, m)]
                        /\ \A k \in 1..(n - 1) : segments'[k] = segments[k]
                /\ (m = readingPos)
                     => segments' = Append(segments, [text |-> kana, reading |-> <<>>])
     /\ (pc' = "done" /\ expression = <<"shoku", "be", "ru">>
                      /\ reading = <<"ta", "be", "ru">>)
          => result' = << [text |-> <<"shoku">>, reading |-> <<"ta">>],
                          [text |-> <<"be", "ru">>, reading |-> <<>>] >>
    ]_vars

\* the second kana run of (be shoku be, be ta be) has been matched at index 2,
\* past the occurrence at index 0 that lies before the cursor
C7_Witness ==
  /\ pc = "walk"
  /\ expression = <<"be", "shoku", "be">>
  /\ reading = <<"be", "ta", "be">>
  /\ i = 3
  /\ readingPos = 3
  /\ segments = << [text |-> <<"be">>, reading |-> <<>>],
                   [text |-> <<"shoku">>, reading |-> <<"ta">>],
                   [text |-> <<"be">>, reading |-> <<>>] >>

MarkersBuilt == notePc = "run" /\ overrideIdx = 0

\* the first element of arr that does not carry the flag, if any
FirstWithout(arr, flag) ==
  LET ok == {k \in 1..Len(arr) :
               ~(arr[k].i.defined /\ \E j \in 1..Len(arr[k].i.value) : arr[k].i.value[j] = flag)}
  IN IF ok = {} THEN None
     ELSE Some(arr[CHOOSE k \in ok : \A j \in ok : k <= j])

\* C2: for each entry variant the marker map has every name of
\* ANKI_FIELD_MARKERS as a key.
C2_EveryMarkerIsAKey ==
  MarkersBuilt => ANKI_FIELD_MARKERS \subseteq DOMAIN markerValues

\* C9: for a word, the expression marker is the first kanji headword not
\* flagged sK, or without one the first reading not flagged sk; the reading
\* marker is the first reading not flagged sk.
C9_WordExpressionAndReading ==
  (MarkersBuilt /\ entry.type = "word")
    => LET headword == IF entry.data.k.defined
                       THEN FirstWithout(entry.data.k.value, "sK")
                       ELSE None
           shown == FirstWithout(entry.data.r, "sk")
       IN /\ headword.defined => markerValues["expression"] = headword.value.ent
          /\ (~headword.defined /\ shown.defined)
               => markerValues["expression"] = shown.value.ent
          /\ shown.defined => markerValues["reading"] = shown.value.ent

\* array.join with the ideographic comma
RECURSIVE JoinForms(_)
JoinForms(forms) ==
  IF forms = <<>> THEN <<>>
  ELSE IF Len(forms) = 1 THEN forms[1]
  ELSE forms[1] \o <<"[U+3001]">> \o JoinForms(Tail(forms))

\* C10: for a name, the expression marker is the kanji forms joined when there
\* is at least one kanji form, and the reading forms joined when there is
\* none, the list being absent or empty.
C10_NameExpression ==
  (MarkersBuilt /\ entry.type = "name")
    => markerValues["expression"] =
         (IF entry.data.k.defined /\ Len(entry.data.k.value) > 0
          THEN JoinForms(entry.data.k.value)
          ELSE JoinForms(entry.data.r))

\* the placeholders of a template: "{", a word run, word runs and hyphens, "}"
IsPlaceholder(template, p, q) ==
  /\ 1 <= p /\ p + 2 <= q /\ q <= Len(template)
  /\ template[p] = "{"
  /\ template[q] = "}"
  /\ template[p + 1] \notin ({"{", "}", "-"} \cup NonWordText)
  /\ \A x \in (p + 1)..(q - 1) : template[x] \notin ({"{", "}"} \cup NonWordText)

PlaceholderName(template, p, q) == concatPieces(SubSeq(template, p + 1, q - 1))

\* the rendering in which a placeholder stands for the value stored under its
\* name, and for the empty string when nothing is stored under it
RECURSIVE ExpectedFrom(_, _, _)
ExpectedFrom(template, stored, p) ==
  IF p > Len(template) THEN <<>>
  ELSE LET ends == {q \in 1..Len(template) : IsPlaceholder(template, p, q)}
       IN IF ends = {}
          THEN <<template[p]>> \o ExpectedFrom(template, stored, p + 1)
          ELSE LET q == CHOOSE x \in ends : TRUE
                   name == PlaceholderName(template, p, q)
               IN (IF name \in DOMAIN stored THEN stored[name] ELSE <<>>)
                  \o ExpectedFrom(template, stored, q + 1)

\* C3: every placeholder whose name neither the builder nor an override set
\* is replaced by the empty string, whatever the name.
C3_UnsetMarkersRenderEmpty ==
  \A k \in 1..fieldIdx :
    fields[settings.fieldTemplates[k].name]
      = ExpectedFrom(settings.fieldTemplates[k].template, markerValues, 1)

\* ------------------------------------------------------------------------
\* Properties of buildAnkiNote: overrides, the note, single-pass rendering
\* ------------------------------------------------------------------------

OverrideKeys ==
  IF markerOverrides.defined
  THEN {markerOverrides.value[k].key : k \in 1..Len(markerOverrides.value)}
  ELSE {}

\* the value the override mapping gives a name
OverrideValue(name) ==
  LET at == {k \in 1..Len(markerOverrides.value) : markerOverrides.value[k].key = name}
  IN markerOverrides.value[CHOOSE k \in at : \A j \in at : j <= k].value

\* override values over computed values
EffectiveMarkers ==
  LET computed == buildMarkerValues(entry, context)
  IN [n \in OverrideKeys \cup DOMAIN computed |->
        IF n \in OverrideKeys THEN OverrideValue(n) ELSE computed[n]]

\* every placeholder of the template has its name among the names
AllNamesIn(template, names) ==
  \A p, q \in 1..Len(template) :
    IsPlaceholder(template, p, q) => PlaceholderName(template, p, q) \in names

\* C11: in every rendered field, a placeholder whose name is an override key
\* stands for the override value, and a placeholder whose name is only a
\* computed key stands for the computed value.
C11_OverridesTakePrecedence ==
  \A k \in 1..fieldIdx :
    LET f == settings.fieldTemplates[k]
    IN AllNamesIn(f.template, DOMAIN EffectiveMarkers)
         => fields[f.name] = ExpectedFrom(f.template, EffectiveMarkers, 1)

\* the audio override reaches a field, the builder's own value being empty
C11_Witness ==
  /\ notePc = "done"
  /\ markerOverrides = AudioOverride
  /\ buildMarkerValues(entry, context)["audio"] = <<>>
  /\ settings.fieldTemplates = AudioFieldTemplates
  /\ fields["Audio"] = <<"[sound:taberu.mp3]", " ", "[sound:taberu.mp3]">>
  /\ fields["Front"] = buildMarkerValues(entry, context)["expression"]

FieldNames(st) == {st.fieldTemplates[k].name : k \in 1..Len(st.fieldTemplates)}

\* C12: the returned note has one field per entry of the field templates,
\* each the rendering of its template against the marker map, the deck, model
\* and tags of the settings, allowDuplicate the negation of
\* checkForDuplicates, the configured scope, and scope options naming the
\* deck with checkChildren true and checkAllModels false.
C12_NoteMatchesSettings ==
  notePc = "done"
    => LET n == note.value
       IN /\ n.deckName = settings.deckName
          /\ n.modelName = settings.modelName
          /\ n.tags = settings.tags
          /\ n.options.allowDuplicate = ~settings.checkForDuplicates
          /\ n.options.duplicateScope = settings.duplicateScope
          /\ n.options.duplicateScopeOptions
               = [deckName |-> settings.deckName, checkChildren |-> TRUE,
                  checkAllModels |-> FALSE]
          /\ DOMAIN n.fields = FieldNames(settings)
          /\ \A k \in 1..Len(settings.fieldTemplates) :
               n.fields[settings.fieldTemplates[k].name]
                 = renderFieldTemplate(settings.fieldTemplates[k].template, markerValues)

\* C13: a rendered field is its template with every placeholder replaced by
\* the stored value as it stands and all other text unchanged; a stored
\* value that reads {reading} appears as that text.
C13_SinglePassRendering ==
  \A k \in 1..fieldIdx :
    LET f == settings.fieldTemplates[k]
    IN /\ AllNamesIn(f.template, DOMAIN markerValues)
            => fields[f.name] = ExpectedFrom(f.template, markerValues, 1)
       /\ (f.template = <<"{", "expression", "}">>
            /\ markerValues["expression"] = <<"{", "reading", "}">>)
            => fields[f.name] = <<"{", "reading", "}">>

\* the value {reading} was written out, and the reading marker is not empty
C13_Witness ==
  /\ notePc = "done"
  /\ Len(settings.fieldTemplates) = 1
  /\ settings.fieldTemplates[1].template = <<"{", "expression", "}">>
  /\ markerValues["expression"] = <<"{", "reading", "}">>
  /\ markerValues["reading"] # <<>>
  /\ fields["Front"] = <<"{", "reading", "}">>

\* ------------------------------------------------------------------------
\* Properties of the pitch accent helpers
\* ------------------------------------------------------------------------

\* the characters of a reading that are not small kana
Morae(rd) == Len(SelectSeq(rd, LAMBDA c : c \notin SmallKanaChars))

PitchCategories == {<<"heiban">>, <<"atamadaka">>, <<"odaka">>, <<"nakadaka">>}

\* C14: getPitchCategory returns heiban for position 0, otherwise atamadaka
\* for 1, otherwise odaka for the mora count, otherwise nakadaka, the mora
\* count being the number of characters that are not small kana; a one-mora
\* reading with position 1 is atamadaka, a position beyond the mora count
\* nakadaka.
C14_PitchCategory ==
  (call.fn = "getPitchCategory" /\ returned.defined)
    => LET m == Morae(call.reading)
           p == call.position
       IN /\ returned.value \in PitchCategories
          /\ returned.value =
               (IF p = 0 THEN <<"heiban">>
                ELSE IF p = 1 THEN <<"atamadaka">>
                ELSE IF p = m THEN <<"odaka">>
                ELSE <<"nakadaka">>)
          /\ (m = 1 /\ p = 1) => returned.value = <<"atamadaka">>
          /\ (p > m /\ p > 1) => returned.value = <<"nakadaka">>

\* a reading of three characters and two morae, dropping after the second
C14_Witness ==
  /\ call.fn = "getPitchCategory"
  /\ call.reading = <<"ta", "ya", "ru">>
  /\ call.position = 2
  /\ returned = Some(<<"odaka">>)

\* the items of a list joined with ", "
Items(joined) == SelectSeq(joined, LAMBDA t : t # ", ")

\* the classification of a drop position against a reading
Classify(rd, p) ==
  IF p = 0 THEN "heiban"
  ELSE IF p = 1 THEN "atamadaka"
  ELSE IF p = Morae(rd) THEN "odaka"
  ELSE "nakadaka"

\* the drop positions a reading carries, in order
AccentsOf(r) ==
  IF r.a.kind = "number" THEN <<r.a.value>>
  ELSE IF r.a.kind = "array" THEN [j \in 1..Len(r.a.items) |-> r.a.items[j].i]
  ELSE <<>>

IsSearchOnlyKana(r) ==
  r.i.defined /\ \E j \in 1..Len(r.i.value) : r.i.value[j] = "sk"

\* the (position, category) pairs of the readings, leaving out the readings
\* flagged search-only kana
RECURSIVE AccentPairs(_)
AccentPairs(readings) ==
  IF readings = <<>> THEN <<>>
  ELSE LET r == Head(readings)
       IN (IF IsSearchOnlyKana(r) THEN <<>>
           ELSE [j \in 1..Len(AccentsOf(r)) |->
                   [position |-> ToString(AccentsOf(r)[j]),
                    category |-> Classify(r.ent, AccentsOf(r)[j])]])
          \o AccentPairs(Tail(readings))

\* C15: for a word, the positions and the categories markers list the same
\* number of items, the i-th category classifies the i-th position against
\* the reading that carries it, and readings without accent data or flagged
\* search-only kana contribute to neither list.
C15_PitchListsAligned ==
  (MarkersBuilt /\ entry.type = "word")
    => LET pairs == AccentPairs(entry.data.r)
           positions == Items(markerValues["pitch-accent-positions"])
           categories == Items(markerValues["pitch-accent-categories"])
       IN /\ Len(positions) = Len(categories)
          /\ Len(positions) = Len(pairs)
          /\ \A k \in 1..Len(pairs) :
               /\ positions[k] = pairs[k].position
               /\ categories[k] = pairs[k].category

\* a flagged reading with an accent, then a reading with three accents
C15_Witness ==
  /\ MarkersBuilt
  /\ entry.type = "word"
  /\ Len(entry.data.r) = 2
  /\ IsSearchOnlyKana(entry.data.r[1])
  /\ entry.data.r[1].a.kind = "number"
  /\ markerValues["pitch-accent-positions"] = <<"2", ", ", "0", ", ", "3">>
  /\ markerValues["pitch-accent-categories"]
       = <<"odaka", ", ", "heiban", ", ", "nakadaka">>

\* ------------------------------------------------------------------------
\* Properties of the glossary serializer
\* ------------------------------------------------------------------------

\* the parts of a text between its line breaks
SplitAtBreaks(text) ==
  LET breaks == {k \in 1..Len(text) : text[k] = "<br>"}
      break(j) == IF j = 0 THEN 0
                  ELSE IF j > Cardinality(breaks) THEN Len(text) + 1
                  ELSE CHOOSE b \in breaks : Cardinality({x \in breaks : x < b}) = j - 1
  IN [j \in 1..(Cardinality(breaks) + 1) |->
        SubSeq(text, break(j - 1) + 1, break(j) - 1)]

\* language tag present and not en
InOtherLanguage(sense) == sense.lang.defined /\ sense.lang.value # "en"

SenseText(sense, brief) ==
  IF brief THEN serializeSingleSenseBrief(sense) ELSE serializeSingleSenseFull(sense)

\* C16: with two or more senses each sense in another language is prefixed
\* with a bullet and each other sense with (k), the numbers being 1..m in
\* order with no gaps however the senses are interleaved; one sense gets no
\* prefix; no sense gives the empty string.
C16_SenseNumbering ==
  (call.fn = "serializeSensesHtml" /\ returned.defined)
    => LET senses == call.senses
           out == returned.value
           parts == SplitAtBreaks(out)
           numbered == SelectSeq(parts, LAMBDA part : part # <<>> /\ part[1] = "(")
           others == {k \in 1..Len(senses) : ~InOtherLanguage(senses[k])}
       IN /\ Len(senses) = 0 => out = <<>>
          /\ Len(senses) = 1 => out = SenseText(senses[1], call.brief)
          /\ Len(senses) >= 2 =>
               /\ Len(parts) = Len(senses)
               /\ \A k \in 1..Len(senses) :
                    IF InOtherLanguage(senses[k])
                    THEN parts[k] = <<"[U+2022] ">> \o SenseText(senses[k], call.brief)
                    ELSE /\ Len(parts[k]) > 3
                         /\ parts[k][1] = "("
                         /\ parts[k][3] = ") "
                         /\ SubSeq(parts[k], 4, Len(parts[k]))
                              = SenseText(senses[k], call.brief)
               /\ Len(numbered) = Cardinality(others)
               /\ \A j \in 1..Len(numbered) : numbered[j][2] = ToString(j)

\* a sense in another language between two numbered senses
C16_Witness ==
  /\ call.fn = "serializeSensesHtml"
  /\ call.senses = <<SenseEat, SenseNative, SenseLive>>
  /\ call.brief = TRUE
  /\ returned = Some(<<"(", "1", ") ", "to eat", "<br>", "[U+2022] ", "essen", "<br>",
                        "(", "2", ") ", "to live on", "; ", "Taberu", "[U+2122]">>)

\* ------------------------------------------------------------------------
\* Properties of the frequency markers and of missing optional data
\* ------------------------------------------------------------------------

FrequencyMarkers ==
  {"frequencies", "frequency-harmonic-rank", "frequency-harmonic-occurrence",
   "frequency-average-rank", "frequency-average-occurrence"}

IsDefinedString(v) == v \in Seq(STRING) /\ \A k \in 1..Len(v) : v[k] # "undefined"

\* C18: every marker value and every rendered field is a string, never
\* undefined nor the text undefined, and the returned note has its fields,
\* for entries without optional data and without a context (and for every
\* other entry of the model).
C18_MissingDataGivesStrings ==
  /\ notePc \in {"run", "done"} =>
       /\ \A m \in DOMAIN markerValues : IsDefinedString(markerValues[m])
       /\ \A f \in DOMAIN fields : IsDefinedString(fields[f])
  /\ notePc = "done" =>
       /\ note.defined
       /\ DOMAIN note.value.fields = {"Front", "Back"}

\* a word with no headwords, readings, senses or chains, looked up without a
\* context: the default card is empty but for its line break
C18_Witness ==
  /\ notePc = "done"
  /\ entry = Word(None, <<>>, <<>>, None, None)
  /\ context = None
  /\ markerOverrides = None
  /\ \A m \in DOMAIN markerValues : markerValues[m] = <<>>
  /\ note.value.fields["Front"] = <<>>
  /\ note.value.fields["Back"] = <<"\n">>

\* ------------------------------------------------------------------------
\* Properties of the furigana renderers
\* ------------------------------------------------------------------------

\* a segment in bracket notation
Bracketed(seg) ==
  IF seg.reading # <<>> THEN seg.text \o <<"[">> \o seg.reading \o <<"]">> ELSE seg.text

\* a segment in ruby notation
Ruby(seg) ==
  IF seg.reading # <<>>
  THEN <<"<ruby>">> \o seg.text \o <<"<rt>">> \o seg.reading \o <<"</rt></ruby>">>
  ELSE seg.text

\* the segments written one after the other, a separator between neighbours
RECURSIVE Written(_, _, _)
Written(segs, write(_), separator) ==
  IF segs = <<>> THEN <<>>
  ELSE IF Len(segs) = 1 THEN write(segs[1])
  ELSE write(segs[1]) \o separator \o Written(Tail(segs), write, separator)

\* C19: the bracket notation is the segments of distributeFurigana joined by
\* one space, each text[reading] or text; the ruby notation is the segments
\* with no separator, each a ruby element or its text; with an empty reading
\* or a reading equal to the expression both are the expression.
C19_FuriganaNotations ==
  (call.fn \in {"buildFuriganaPlain", "buildFuriganaHtml"} /\ returned.defined)
    => LET segs == distributeFurigana(call.expression, call.reading)
       IN IF call.reading = <<>> \/ call.reading = call.expression
          THEN returned.value = call.expression
          ELSE IF call.fn = "buildFuriganaPlain"
               THEN returned.value = Written(segs, Bracketed, <<" ">>)
               ELSE returned.value = Written(segs, Ruby, <<>>)

\* a kanji with its reading, then a kana run, in ruby notation
C19_Witness ==
  /\ call.fn = "buildFuriganaHtml"
  /\ call.expression = <<"shoku", "ta">>
  /\ call.reading = <<"be", "ta">>
  /\ returned = Some(<<"<ruby>", "shoku", "<rt>", "be", "</rt></ruby>", "ta">>)

\* ------------------------------------------------------------------------
\* Properties of the frequency lookup
\* ------------------------------------------------------------------------

\* katakana written as hiragana
AsHiragana(text) ==
  [k \in 1..Len(text) |-> IF text[k] = "BE" THEN "be" ELSE text[k]]

Given(arg) == arg.defined /\ arg.value # <<>>

\* the rows of the list recorded for the pair, up to the kind of kana
RowsOfPair(word, rd) ==
  {k \in 1..Len(csv) : /\ AsHiragana(csv[k].word) = AsHiragana(word)
                        /\ AsHiragana(csv[k].form) = AsHiragana(rd)}

\* the rank the list gives the pair: the lowest of its rows, if it has one
RankOfPair(word, rd) ==
  IF RowsOfPair(word, rd) = {} THEN None
  ELSE Some(CHOOSE rank \in {csv[k].rank : k \in RowsOfPair(word, rd)} :
              \A k \in RowsOfPair(word, rd) : rank <= csv[k].rank)

\* the list has been read into the indexes
Indexed == pairMap.defined /\ (csv # <<>> => DOMAIN pairMap.value # {})

\* C20: a lookup with both a headword and a reading returns the rank indexed
\* for the normalized pair and nothing else: the lowest rank the list
\* records for that pair once the list is indexed, undefined when the pair
\* is not indexed, never a rank recorded for another pair; a lookup with
\* neither argument returns undefined.
C20_PairLookupOnly ==
  [][ (call.fn = "getFrequencyRank" /\ ~returned.defined /\ returned'.defined)
        => LET k == call.kanjiHeadword
               rd == call.kanaReading
               rank == returned'.value
           IN /\ (Given(k) /\ Given(rd)) =>
                   /\ rank = (IF pairMap.defined
                              THEN mapGet(pairMap.value,
                                          compositeKey(AsHiragana(k.value),
                                                       AsHiragana(rd.value)))
                              ELSE None)
                   /\ Indexed => rank = RankOfPair(k.value, rd.value)
                   /\ rank.defined =>
                        \E j \in RowsOfPair(k.value, rd.value) : csv[j].rank = rank.value
              /\ (~Given(k) /\ ~Given(rd)) => rank = None ]_vars

\* the list records the reading alone and the word with another reading, the
\* indexes are built, and the lookup of the pair returns undefined
C20_Witness ==
  /\ call.fn = "getFrequencyRank"
  /\ call.kanjiHeadword = Some(<<"shoku">>)
  /\ call.kanaReading = Some(<<"BE">>)
  /\ csv = << [word |-> <<"shoku">>, form |-> <<"ta">>, rank |-> 1],
              [word |-> <<"be">>, form |-> <<"be">>, rank |-> 2] >>
  /\ pairMap.defined
  /\ singleMap.defined
  /\ DOMAIN singleMap.value = {<<"shoku">>, <<"ta">>, <<"be">>}
  /\ returned = Some(None)

\* ------------------------------------------------------------------------
\* Properties of loading the frequency data
\* ------------------------------------------------------------------------

\* a step that is a call of loadFrequencyData
IsLoadCall == callsLeft' # callsLeft

\* a step that is a call of getFrequencyRank
IsLookup == ~returned.defined /\ returned'.defined

\* C21: the file is fetched and indexed at most once however often
\* loadFrequencyData is called: a call during the load returns the pending
\* load and starts nothing, a call after the load resolves at once and
\* starts nothing, and the indexes are published once.
C21_LoadsAtMostOnce ==
  [][ /\ doLoadCount' <= 1
      /\ doLoadCount' # doLoadCount => (loadPromise = "undefined" /\ ~pairMap.defined)
      /\ (IsLoadCall /\ loadPromise = "pending")
           => /\ lastReturn' = "loadPromise"
              /\ UNCHANGED <<doLoadCount, loadPromise, pairMap, singleMap>>
      /\ (IsLoadCall /\ loadPromise = "fulfilled")
           => /\ lastReturn' = "resolved"
              /\ UNCHANGED <<doLoadCount, loadPromise, pairMap, singleMap>>
      /\ (pairMap' # pairMap \/ singleMap' # singleMap)
           => (~pairMap.defined /\ ~singleMap.defined /\ loadPromise = "pending") ]_vars

\* the second call found the load of the first one pending
C21_Witness ==
  /\ callsLeft = MaxLoadCalls - 2
  /\ loadPromise = "pending"
  /\ doLoadCount = 1
  /\ lastReturn = "loadPromise"

\* C22: a failed load completes all the same, with both indexes empty; from
\* then on every lookup returns undefined and no call of loadFrequencyData
\* loads again; before a load has completed every lookup returns undefined.
C22_FailedLoadIsFinal ==
  [][ /\ errorLogged
           => /\ loadPromise = "fulfilled"
              /\ pairMap = Some(EmptyMap)
              /\ singleMap = Some(EmptyMap)
              /\ UNCHANGED <<pairMap, singleMap, loadPromise, doLoadCount>>
              /\ IsLookup => returned'.value = None
              /\ IsLoadCall => lastReturn' = "resolved"
      /\ (errorLogged' /\ ~errorLogged)
           => /\ loadPromise' = "fulfilled"
              /\ pairMap' = Some(EmptyMap)
              /\ singleMap' = Some(EmptyMap)
      /\ (IsLookup /\ loadPromise # "fulfilled") => returned'.value = None ]_vars

\* the load failed, a later call resolved without loading, and the lookup of
\* a pair the list records returned undefined
C22_Witness ==
  /\ errorLogged
  /\ loadPromise = "fulfilled"
  /\ doLoadCount = 1
  /\ lastReturn = "resolved"
  /\ csv = << [word |-> <<"shoku">>, form |-> <<"BE">>, rank |-> 2] >>
  /\ call.kanjiHeadword = Some(<<"shoku">>)
  /\ call.kanaReading = Some(<<"be">>)
  /\ returned = Some(None)


\* ------------------------------------------------------------------------
\* Properties of fetchAndStoreAudio
\* ------------------------------------------------------------------------

\* the order the sources are to be asked in
SourcesInOrder == <<"jpod101", "jisho">>

\* the events that end a source's turn without a file name
FailureEvents == {"nothing", "threw", "storeThrew", "storedNothing"}

\* the sources asked so far, in the order they were asked
SourcesAsked ==
  LET fetches == SelectSeq(audioLog, LAMBDA e : e.event = "fetch")
  IN  [k \in 1..Len(fetches) |-> fetches[k].source]

\* the call has resolved to the given value
ResolvedTo(value) == audioPc = "done" /\ audioReturned = Some(value)

\* C23: fetchAndStoreAudio asks jpod101 and then jisho; the first name that
\* is not empty and that storeMediaFile returns is the result, and nothing is
\* asked after it; a source that gives no audio or throws, and a store call
\* that throws or returns an empty name, lead to the next source; the result
\* is null only when every source has been asked and has failed, and the call
\* never rejects.
C23_SourcesInOrderFirstStoredWins ==
  /\ SourcesAsked = SubSeq(SourcesInOrder, 1, Len(SourcesAsked))
  /\ \A k \in 1..Len(audioLog) :
       /\ audioLog[k].event = "stored" =>
            /\ k = Len(audioLog)
            /\ audioLog[k].detail # <<>>
            /\ ResolvedTo(Some(audioLog[k].detail))
       /\ audioLog[k].event \in FailureEvents =>
            IF audioLog[k].source = SourcesInOrder[Len(SourcesInOrder)]
            THEN k = Len(audioLog) /\ ResolvedTo(None)
            ELSE /\ k < Len(audioLog)
                 /\ audioLog[k + 1].event = "fetch"
                 /\ \E j \in 1..(Len(SourcesInOrder) - 1) :
                      /\ audioLog[k].source = SourcesInOrder[j]
                      /\ audioLog[k + 1].source = SourcesInOrder[j + 1]
  /\ audioPc = "done" =>
       \/ /\ ResolvedTo(None)
          /\ SourcesAsked = SourcesInOrder
          /\ \A j \in 1..Len(SourcesInOrder) :
               \E k \in 1..Len(audioLog) :
                 /\ audioLog[k].source = SourcesInOrder[j]
                 /\ audioLog[k].event \in FailureEvents
       \/ /\ audioLog[Len(audioLog)].event = "stored"
          /\ ResolvedTo(Some(audioLog[Len(audioLog)].detail))
  /\ audioPc # "done" => audioReturned = None

\* the first source's store call returned an empty name, the second source's
\* file was stored and its name returned
C23_Witness ==
  /\ audioPc = "done"
  /\ Len(audioLog) = 6
  /\ audioLog[3].event = "storedNothing"
  /\ audioLog[3].source = "jpod101"
  /\ audioLog[6].event = "stored"
  /\ audioLog[6].source = "jisho"
  /\ audioReturned = Some(Some(audioLog[6].detail))

\* ------------------------------------------------------------------------
\* Properties of AnkiButton
\* ------------------------------------------------------------------------

\* C28: for one button at most one call of onAddToAnki is pending at any
\* time, the state is adding whenever a call is pending, and a click in state
\* adding or added starts no call, also when a click in state error starts a
\* call while the reset timer of that error is outstanding.
C28_AtMostOneCallPending ==
  /\ pendingCalls <= 1
  /\ pendingCalls > 0 => buttonState = "adding"
  /\ lastClick.did = "started" => lastClick.state \notin {"adding", "added"}

\* ------------------------------------------------------------------------
\* Kana segments carry no reading
\* ------------------------------------------------------------------------

\* no segment of the list is all kana and has a reading
NoKanaWithReading(segs) ==
  \A k \in 1..Len(segs) : OnlyKana(segs[k].text) => segs[k].reading = <<>>

\* every ruby element of the markup has a base with a character that is not kana
NoKanaRuby(html) ==
  \A k \in 1..Len(html) :
    html[k] = "<ruby>"
      => \E m \in (k + 1)..Len(html) :
           /\ html[m] = "<rt>"
           /\ \A j \in (k + 1)..(m - 1) : html[j] \in Chars
           /\ \E j \in (k + 1)..(m - 1) : ~IsKanaCodePoint(html[j])

\* C29: in every result of distributeFurigana, and in the list it builds on
\* the way, a segment whose text is all kana has an empty reading, so the
\* ruby notation of the same arguments annotates no all-kana segment.
C29_KanaSegmentsHaveNoReading ==
  /\ NoKanaWithReading(segments)
  /\ pc = "done"
       => /\ NoKanaWithReading(result)
          /\ NoKanaRuby(buildFuriganaHtml(expression, reading))

\* the trailing reading went to the kanji segment, not to the kana segment
\* that ends the list
C29_Witness ==
  /\ pc = "done"
  /\ exit = "end"
  /\ expression = <<"shoku", "ta">>
  /\ reading = <<"ta", "ru">>
  /\ result = <<FuriganaSegment(<<"shoku">>, <<"ru">>), FuriganaSegment(<<"ta">>, <<>>)>>

\* ------------------------------------------------------------------------
\* Properties of the AnkiConnect client
\* ------------------------------------------------------------------------

\* the operations called so far
Ops == 1..Len(ankiOps)

\* what the version request of the given check has returned
ReturnedByCheck(c) ==
  {v.value : v \in {w \in versionsReturned : w.by = "check" /\ w.owner = c}}

\* the requests handed to fetch on behalf of the operation itself
SentBy(o) == {a \in sentActions : a.by = "operation" /\ a.owner = o}

\* C24: on an enabled client no request with an action other than version is
\* sent unless a version request has returned a number of at least 2; an
\* operation whose check fails to connect rejects with the connection error,
\* one whose check reports less than 2 or no number rejects with the
\* incompatible-versions error, and neither sends its request.
C24_NoActionBeforeCompatibleVersion ==
  /\ \A a \in sentActions :
       a.action # "version"
         => \E v \in versionsReturned : v.by = "check" /\ v.value >= 2
  /\ \A o \in Ops :
       LET op == ankiOps[o]
       IN /\ (op.enabled /\ op.kind # "isConnected" /\ SentBy(o) # {})
               => \E version \in ReturnedByCheck(op.check) \cup {remoteVersion} :
                    version >= 2
          /\ op.checked = "passed"
               => \E version \in ReturnedByCheck(op.check) : version >= 2
          /\ op.checked = "threw"
               => /\ op.state = "rejected"
                  /\ SentBy(o) = {}
                  /\ \A r \in requests : ~(r.by = "operation" /\ r.owner = o)
                  /\ IF ReturnedByCheck(op.check) = {}
                     THEN op.result = Some(Error("connection"))
                     ELSE /\ \A version \in ReturnedByCheck(op.check) : version < 2
                          /\ op.result = Some(Error("incompatible"))

\* the server answered the check with something that is not a number: the
\* operation rejected with the incompatible-versions error and sent nothing
C24_Witness ==
  \E o \in Ops :
    /\ ankiOps[o].kind = "addNote"
    /\ ankiOps[o].result = Some(Error("incompatible"))
    /\ ReturnedByCheck(ankiOps[o].check) = {0}
    /\ sentActions = {[action |-> "version", by |-> "check", owner |-> ankiOps[o].check]}

\* the version requests of the check that are in flight
CheckRequests == {r \in requests : r.by = "check"}

\* C25: at most one version request of the compatibility check is in flight
\* at any time; operations that start while a check is pending await the
\* promise of that check, and all operations that awaited one check either
\* go on or reject with the same error.
C25_OneCheckShared ==
  /\ Cardinality(CheckRequests) <= 1
  /\ \A r \in CheckRequests :
       versionCheckPromise = [state |-> "pending", id |-> r.owner]
  /\ versionCheckPromise.state = "pending" => CheckRequests # {}
  /\ \A o \in Ops :
       ankiOps[o].checked = "waiting"
         => \/ /\ versionCheckPromise.state = "pending"
               /\ versionCheckPromise.id = ankiOps[o].check
               /\ \E k \in 1..Len(checkWaiters) : checkWaiters[k] = o
            \/ \E k \in 1..Len(microtasks) :
                 microtasks[k].job = "await" /\ microtasks[k].op = o
  /\ \A o1 \in Ops : \A o2 \in Ops :
       (/\ ankiOps[o1].check # 0
        /\ ankiOps[o1].check = ankiOps[o2].check
        /\ ankiOps[o1].checked \in {"passed", "threw"}
        /\ ankiOps[o2].checked \in {"passed", "threw"})
         => /\ ankiOps[o1].checked = ankiOps[o2].checked
            /\ ankiOps[o1].checked = "threw" => ankiOps[o1].result = ankiOps[o2].result

\* three operations awaited the one check there was, and all three rejected
C25_Witness ==
  /\ checksIssued = 1
  /\ Len(ankiOps) = 3
  /\ \A o \in Ops :
       /\ ankiOps[o].check = 1
       /\ ankiOps[o].checked = "threw"
       /\ ankiOps[o].result = Some(Error("incompatible"))

\* C26: the check is repeated until it first succeeds and never afterwards:
\* once the reactions of a settled check have run the slot is empty, an
\* operation that finds the slot empty and no compatible version recorded
\* sends a fresh version request, and once the remote version is at least 2
\* no step changes it or starts a check, a setter's included.
C26_CheckUntilFirstSuccess ==
  [][/\ remoteVersion >= 2
          => remoteVersion' = remoteVersion /\ checksIssued' = checksIssued
     /\ (microtasks' = <<>> /\ \A r \in requests' : r.by # "check")
          => versionCheckPromise' = NoPromise
     /\ (/\ Len(ankiOps') = Len(ankiOps) + 1
         /\ ankiEnabled
         /\ ankiOps'[Len(ankiOps')].kind # "isConnected"
         /\ remoteVersion < 2
         /\ versionCheckPromise = NoPromise)
          => /\ checksIssued' = checksIssued + 1
             /\ \E r \in requests' \ requests :
                  r.by = "check" /\ r.owner = checksIssued' /\ r.action = "version"]_vars

\* a first check failed, the second one recorded version 6, the address was
\* changed, and the operation called after that sent its request unchecked
C26_Witness ==
  /\ Len(ankiOps) = 3
  /\ checksIssued = 2
  /\ ReturnedByCheck(1) = {}
  /\ ReturnedByCheck(2) = {6}
  /\ remoteVersion = 6
  /\ ankiOps[1].checked = "threw"
  /\ ankiOps[2].checked = "passed"
  /\ ankiOps[3].kind = "addNote"
  /\ ankiOps[3].checked = "none"
  /\ ankiOps[3].server # ankiOps[2].server
  /\ [action |-> "addNote", by |-> "operation", owner |-> 3] \in sentActions

\* the value each operation resolves with on a disabled client
NeutralValue(kind, notes) ==
  CASE kind \in {"getVersion", "addNote", "updateNoteFields"} -> Null
    [] kind \in {"notesInfo", "cardsInfo", "getDeckNames", "getModelNames",
                 "getModelFieldNames", "guiBrowse", "findNotes", "findCards"} -> List(<<>>)
    [] kind \in {"suspendCards", "sync"} -> Boolean(FALSE)
    [] kind = "canAddNotes" -> List([k \in 1..notes |-> Boolean(FALSE)])
    [] kind = "canAddNotesWithErrorDetail"
         -> List([k \in 1..notes |-> [canAdd |-> Boolean(FALSE), error |-> Null]])

\* everything _invoke was called for on behalf of the operation
InvokedFor(o) ==
  {a \in sentActions : a.by \in {"operation", "isConnected"} /\ a.owner = o}
  \cup {[action |-> r.action, by |-> r.by, owner |-> r.owner] :
          r \in {q \in requests : q.by \in {"operation", "isConnected"} /\ q.owner = o}}

\* C27: called on a disabled client, every operation but storeMediaFile and
\* isConnected sends no request and resolves with its neutral value,
\* storeMediaFile rejects without a request, and isConnected sends its
\* version request whatever the flag is.
C27_DisabledClientSendsNothing ==
  \A o \in Ops :
    LET op == ankiOps[o]
    IN /\ (~op.enabled /\ op.kind \notin {"storeMediaFile", "isConnected"})
            => /\ op.state = "resolved"
               /\ op.result = Some(NeutralValue(op.kind, op.notes))
               /\ InvokedFor(o) = {}
               /\ op.check = 0
       /\ (~op.enabled /\ op.kind = "storeMediaFile")
            => /\ op.state = "rejected"
               /\ op.result = Some(Error("notEnabled"))
               /\ InvokedFor(o) = {}
               /\ op.check = 0
       /\ (op.kind = "isConnected" /\ op.server # NoServer)
            => [action |-> "version", by |-> "isConnected", owner |-> o] \in sentActions

\* on a disabled client canAddNotes answered false for each of two notes and
\* isConnected sent its request, the only one
C27_Witness ==
  /\ Len(ankiOps) = 2
  /\ ankiOps[1].kind = "canAddNotes"
  /\ ankiOps[1].notes = 2
  /\ ~ankiOps[1].enabled
  /\ ankiOps[1].result = Some(List(<<Boolean(FALSE), Boolean(FALSE)>>))
  /\ ankiOps[2].kind = "isConnected"
  /\ ~ankiOps[2].enabled
  /\ sentActions = {[action |-> "version", by |-> "isConnected", owner |-> 2]}

====
